---------------------------- MODULE Spec2Model ----------------------------
(***************************************************************************)
(* ParaDetect AI: the serving shell (app.py, demo_app.py) and the class    *)
(* index conventions of the training and inference scripts.                *)
(*                                                                         *)
(* Probabilities are fixed-point hundredths: the float 1.0 is One = 100.   *)
(* File names are tuples of one-character strings, so that os.path.splitext*)
(* and the extension test are computed as the code computes them.          *)
(***************************************************************************)
EXTENDS Integers, Sequences, FiniteSets, TLC

VARIABLES
    appKind,           \* which application module the process runs
    environ,           \* what the module-level code finds, until it has run
    phase,             \* "starting" until the module-level code has run
    TF_AVAILABLE,      \* app.py:12/15
    CONFIG_AVAILABLE,  \* app.py:23/26
    model,             \* app.py:36/45
    clock,             \* datetime.now(), in microseconds
    fs,                \* files present in <instance>/uploads
    req,               \* per request: position in api_predict and its locals
    labelRun,          \* the training/inference pairing under examination
    train,             \* a run of train.py or train_model.py: model.fit and after
    batch,             \* a run of predict.py on one image or on a folder
    cw,                \* a call of get_class_weights
    data,              \* the loading and splitting of a data directory
    img,               \* a call of load_and_preprocess
    launch,            \* a run of run_demo.py
    report,            \* a run of healthcare_report.py
    health             \* the last answer of /api/health

vars == <<appKind, environ, phase, TF_AVAILABLE, CONFIG_AVAILABLE, model,
          clock, fs, req, labelRun, train, batch, cw,
          data, img, launch, report, health>>

\* the command-line tools, idle while the web application is looked at
moreVars == <<data, img, launch, report, health>>

toolVars == <<train, batch, cw, moreVars>>

Off == [pc |-> "off"]

servingVars == <<appKind, environ, phase, TF_AVAILABLE, CONFIG_AVAILABLE,
                 model, clock, fs, req>>

-----------------------------------------------------------------------------
(* Bounds of the model *)

MaxClock == 1
DrawStep == 10

-----------------------------------------------------------------------------
(* Program constants *)

None == "None"

\* 1.0 in hundredths (app.py:215, 220; demo_app.py:70, 76)
One == 100

CLASS_NAMES == <<"Uninfected", "Parasitized">>

DemoParasitizedChance == 30
DemoParasitizedLo == 65
DemoParasitizedHi == 95
DemoUninfectedLo == 70
DemoUninfectedHi == 98

ExtPngLower == <<".", "p", "n", "g">>
ExtJpgLower == <<".", "j", "p", "g">>
ExtJpegLower == <<".", "j", "p", "e", "g">>
ExtPngUpper == <<".", "P", "N", "G">>
ExtJpgUpper == <<".", "J", "P", "G">>
ExtJpegUpper == <<".", "J", "P", "E", "G">>

allowed_extensions ==
    {ExtPngLower, ExtJpgLower, ExtJpegLower, ExtPngUpper, ExtJpgUpper, ExtJpegUpper}

MsgNoImage == "No image uploaded"
MsgEmptyFilename == "Empty filename"
MsgInvalidFormat == "Invalid file format. Please upload PNG, JPG, or JPEG files."
MsgTooLarge == "File too large. Maximum size is 10MB."
MsgProcessingFailed == "Processing failed"

-----------------------------------------------------------------------------
(* Strings as tuples of characters *)

Max(S) == CHOOSE x \in S : \A y \in S : y <= x

\* str.rfind, 1-based; 0 when the character does not occur
RFind(s, ch) == Max({0} \cup {i \in 1..Len(s) : s[i] = ch})

\* posixpath.splitext(p)[1]
SplitExt(p) ==
    LET sepIndex == RFind(p, "/")
        dotIndex == RFind(p, ".")
    IN  IF dotIndex > sepIndex
           /\ \E k \in (sepIndex + 1)..(dotIndex - 1) : p[k] # "."
        THEN SubSeq(p, dotIndex, Len(p))
        ELSE <<>>

LowerChar(c) ==
    CASE c = "P" -> "p" [] c = "N" -> "n" [] c = "G" -> "g"
      [] c = "J" -> "j" [] c = "E" -> "e"
      [] OTHER -> c

\* str.lower
Lower(s) == [i \in 1..Len(s) |-> LowerChar(s[i])]

-----------------------------------------------------------------------------
(* Uploads: what a client may send to /api/predict *)

NamePngLower == <<"c", ".", "p", "n", "g">>
NamePngUpper == <<"c", ".", "P", "N", "G">>
NamePngMixed == <<"c", ".", "P", "n", "g">>
NameJpgLower == <<"c", ".", "j", "p", "g">>
NameJpgMixed == <<"c", ".", "J", "p", "G">>
NameJpegLower == <<"c", ".", "j", "p", "e", "g">>
NameJpegUpper == <<"c", ".", "J", "P", "E", "G">>
NameTxt == <<"c", ".", "t", "x", "t">>
NameNoExt == <<"c">>
NameDotfile == <<".", "p", "n", "g">>
NameEmpty == <<>>
NameInSubdir == <<"d", "/", "c", ".", "p", "n", "g">>
NameParent == <<".", ".", "/", "c", ".", "p", "n", "g">>

Filenames ==
    {NamePngLower, NamePngUpper, NamePngMixed, NameJpgLower, NameJpgMixed,
     NameJpegLower, NameJpegUpper, NameTxt, NameNoExt, NameDotfile, NameEmpty,
     NameInSubdir, NameParent}

\* oversize: the body exceeds MAX_CONTENT_LENGTH; hasImage: the form has an
\* `image` field; content: whether the bytes decode as an image; disk: whether
\* the upload directory can take the file
Inputs ==
    [oversize : BOOLEAN, hasImage : BOOLEAN, filename : Filenames,
     content : {"image", "corrupt"}, disk : {"ok", "full"}]

NoInput ==
    [oversize |-> FALSE, hasImage |-> FALSE, filename |-> NameEmpty,
     content |-> "image", disk |-> "ok"]

-----------------------------------------------------------------------------
(* Module-level code of app.py: imports and model loading *)

AppKinds == {"app", "demo_app"}

Artifacts == {"softmax2", "sigmoid1", "corrupt"}

\* tensorflow / config: whether the import succeeds; modelsDir: whether
\* models/ exists; modelFiles: the .keras files of os.listdir, in its order
AppEnvirons ==
    {e \in [tensorflow : BOOLEAN, config : BOOLEAN, modelsDir : BOOLEAN,
            modelFiles : {<<>>} \cup {<<a>> : a \in Artifacts}] :
        ~e.modelsDir => e.modelFiles = <<>>}

DemoEnviron ==
    [tensorflow |-> FALSE, config |-> FALSE, modelsDir |-> FALSE, modelFiles |-> <<>>]

\* keras.models.load_model inside the try of app.py:44-49
LoadOrNone(artifact) == IF artifact = "corrupt" THEN None ELSE artifact

StartupModelNoTry(e) ==
    IF e.tensorflow /\ e.config /\ e.modelsDir /\ e.modelFiles # <<>>
    THEN e.modelFiles[1]
    ELSE None

StartupModelAnyConfig(e) ==
    IF e.tensorflow /\ e.modelsDir /\ e.modelFiles # <<>>
    THEN LoadOrNone(e.modelFiles[1])
    ELSE None

\* app.py:36-55
StartupModel(e) ==
    IF e.tensorflow /\ e.config
    THEN IF e.modelsDir
         THEN IF e.modelFiles # <<>>
              THEN LoadOrNone(e.modelFiles[1])
              ELSE None
         ELSE None
    ELSE None

-----------------------------------------------------------------------------
(* The demo generator *)

\* random.uniform(lo, hi), sampled every DrawStep hundredths and at both ends
Uniform(lo, hi) == {x \in lo..hi : (x - lo) % DrawStep = 0 \/ x = hi}

\* random.random(), in hundredths, sampled at both ends and on either side
\* of the threshold it is compared with
RandomUnit == {0, DemoParasitizedChance - 1, DemoParasitizedChance, One - 1}

Prediction(label, confidence, uninfected_prob, parasitized_prob) ==
    [label |-> label, confidence |-> confidence,
     probabilities |-> [Uninfected |-> uninfected_prob,
                        Parasitized |-> parasitized_prob]]

DemoNoComplement(u, dp, du) ==
    IF u < DemoParasitizedChance
    THEN Prediction("Parasitized", dp, dp, dp)
    ELSE Prediction("Uninfected", du, du, du)

DemoSwappedLabel(u, dp, du) ==
    IF u < DemoParasitizedChance
    THEN Prediction("Uninfected", dp, One - dp, dp)
    ELSE Prediction("Parasitized", du, du, One - du)

\* app.py:208-229; u is random.random(), dp and du the two uniform draws
generate_demo_prediction(u, dp, du) ==
    IF u < DemoParasitizedChance
    THEN Prediction("Parasitized", dp, One - dp, dp)
    ELSE Prediction("Uninfected", du, du, One - du)

\* demo_app.py:67-78, the same generator written inline
demo_app_prediction(u, dp, du) ==
    IF u < DemoParasitizedChance
    THEN Prediction("Parasitized", dp, One - dp, dp)
    ELSE Prediction("Uninfected", du, du, One - du)

-----------------------------------------------------------------------------
(* The real-model branch *)

\* model.predict(img_batch)[0]: a softmax over two classes, or the single
\* sigmoid unit of a binary model
ProbGrid == {p \in 0..One : p % DrawStep = 0 \/ p = One}

ModelOutputs(m) ==
    IF m = "softmax2" THEN {<<p, One - p>> : p \in ProbGrid}
    ELSE {<<p>> : p \in ProbGrid}

ArgmaxLast(probs) ==
    CHOOSE i \in 1..Len(probs) :
        /\ \A j \in 1..Len(probs) : probs[j] <= probs[i]
        /\ \A j \in (i + 1)..Len(probs) : probs[j] < probs[i]

\* np.argmax: the first index holding the maximum (1-based here)
Argmax(probs) ==
    CHOOSE i \in 1..Len(probs) :
        /\ \A j \in 1..Len(probs) : probs[j] <= probs[i]
        /\ \A j \in 1..(i - 1) : probs[j] < probs[i]

Raised == [raised |-> TRUE]

ModelPredictionUnchecked(content, probs) ==
    [raised |-> FALSE,
     value |-> Prediction(CLASS_NAMES[Argmax(probs)], probs[Argmax(probs)],
                          probs[1], probs[Len(probs)])]

\* app.py:141-162: preprocessing, argmax, label and probability lookup;
\* Raised when any of them raises
ModelPrediction(content, probs) ==
    LET pred_idx == Argmax(probs)
    IN  IF content = "corrupt" THEN Raised
        ELSE IF pred_idx > Len(CLASS_NAMES) \/ Len(probs) < 2 THEN Raised
        ELSE [raised |-> FALSE,
              value |-> Prediction(CLASS_NAMES[pred_idx], probs[pred_idx],
                                   probs[1], probs[2])]

-----------------------------------------------------------------------------
(* api_predict: validation, temp file, response *)

Requests == {"r1", "r2"}

\* the requests the development server works on one at a time
Serial == {"r1"}

ErrorResponse(status, msg) == [status |-> status, body |-> [error |-> msg]]

NoResponse == ErrorResponse(0, "")

ErrTooLarge == "413 Request Entity Too Large"
ErrNoSuchDir == "[Errno 2] No such file or directory"
ErrNoSpace == "[Errno 28] No space left on device"

\* the 500 of app.py:194-198 and demo_app.py:92-93 (message: "Processing failed: <e>")
ProcessingFailed(e) == [status |-> 500, body |-> [error |-> MsgProcessingFailed, cause |-> e]]

FileTypeAllowedAny(filename) == TRUE

FileTypeAllowedFolded(filename) ==
    Lower(SplitExt(filename)) \in {ExtPngLower, ExtJpgLower, ExtJpegLower}

\* app.py:120-122, demo_app.py:44-46
FileTypeAllowed(filename) == SplitExt(filename) \in allowed_extensions

\* app.py:112-123 and demo_app.py:36-47, once request.files has been read
FormRejection(in) ==
    IF ~in.hasImage THEN ErrorResponse(400, MsgNoImage)
    ELSE IF in.filename = NameEmpty THEN ErrorResponse(400, MsgEmptyFilename)
    ELSE IF ~FileTypeAllowed(in.filename) THEN ErrorResponse(400, MsgInvalidFormat)
    ELSE NoResponse

TooLargeAlways413(kind) == ErrorResponse(413, MsgTooLarge)

\* Reading request.files raises RequestEntityTooLarge for an oversize body.
\* app.py reads it inside `try` (110-112): `except Exception` (194-198)
\* catches it. demo_app.py reads it outside any try (36): Flask dispatches
\* it to the 413 error handler (112-115).
TooLargeResponse(kind) ==
    IF kind = "app" THEN ProcessingFailed(ErrTooLarge)
    ELSE ErrorResponse(413, MsgTooLarge)

\* the response of the early exits, NoResponse when the upload passes
Rejection(kind, in) ==
    IF in.oversize THEN TooLargeResponse(kind) ELSE FormRejection(in)

\* os.path.join(upload_dir, f"temp_{timestamp}_{file.filename}")
TempPath(timestamp, filename) == [timestamp |-> timestamp, filename |-> filename]

NoPath == TempPath(0, NameEmpty)

\* the file name puts the temp path in a directory that does not exist
HasSeparator(filename) == \E i \in 1..Len(filename) : filename[i] = "/"

\* a client file name that climbs back to the upload directory, and one that
\* climbs out of it
NameBack == <<"d", "/", ".", ".", "/", "c", ".", "p", "n", "g">>
NameEscape ==
    <<"d", "/", ".", ".", "/", ".", ".", "/", "c", ".", "p", "n", "g">>

\* the parts of a file name between its separators
RECURSIVE Components(_)
Components(s) ==
    IF RFind(s, "/") = 0
    THEN <<s>>
    ELSE Append(Components(SubSeq(s, 1, RFind(s, "/") - 1)),
                SubSeq(s, RFind(s, "/") + 1, Len(s)))

\* How far below the upload directory the first k parts of
\* temp_<timestamp>_<filename> lead when `..` cancels the part before it.
\* The first part carries the temp_ prefix and is never `..`.
RECURSIVE DirDepth(_, _)
DirDepth(comps, k) ==
    IF k = 0 THEN 0
    ELSE IF k = 1 THEN 1
    ELSE IF comps[k] = <<".", ".">> THEN DirDepth(comps, k - 1) - 1
    ELSE IF comps[k] \in {<<>>, <<".">>} THEN DirDepth(comps, k - 1)
    ELSE DirDepth(comps, k - 1) + 1

\* depth of the directory in which the temp path puts the file
FileDepth(filename) ==
    DirDepth(Components(filename), Len(Components(filename)) - 1)

SaveAlwaysCreates(filename) == {TRUE}

\* Whether file.save(temp_path) creates the file. Without a separator the
\* file goes into the upload directory. With separators the first directory
\* of the path never exists: a system that resolves the path one part at
\* a time fails on it, and one that cancels `..` in the path text first
\* creates the file when the remaining directory exists.
SaveCreates(filename) ==
    IF ~HasSeparator(filename) THEN {TRUE}
    ELSE IF FileDepth(filename) <= 0 THEN {TRUE, FALSE}
    ELSE {FALSE}

\* app.py:180-190
ResponseDataNoFlag(pred, demo_mode, now) ==
    [status |-> 200,
     body |-> pred @@ [processing_time |-> "elapsed", timestamp |-> now]]

ResponseData(pred, demo_mode, now) ==
    [status |-> 200,
     body |-> IF demo_mode
              THEN pred @@ [processing_time |-> "elapsed", timestamp |-> now,
                            demo_mode |-> TRUE]
              ELSE pred @@ [processing_time |-> "elapsed", timestamp |-> now]]

\* demo_app.py:80-90
DemoAppResponseData(pred, now) ==
    [status |-> 200,
     body |-> pred @@ [processing_time |-> "elapsed", timestamp |-> now,
                       demo_mode |-> TRUE]]

UseModelAlways(m, tf) == TRUE

\* app.py:138
UseModel(m, tf) == m # None /\ tf

IdleRequest ==
    [pc |-> "idle", input |-> NoInput, temp_path |-> NoPath, saved |-> FALSE,
     resp |-> NoResponse, producer |-> "none", invoked |-> {},
     removeFailed |-> FALSE]

-----------------------------------------------------------------------------
(* The serving process *)

InitServing ==
    /\ appKind \in AppKinds
    /\ environ \in (IF appKind = "app" THEN AppEnvirons ELSE {DemoEnviron})
    /\ phase = "starting"
    /\ TF_AVAILABLE = FALSE
    /\ CONFIG_AVAILABLE = FALSE
    /\ model = None
    /\ clock = 0
    /\ fs = {}
    /\ req = [r \in Requests |-> IdleRequest]

\* app.py:8-55; demo_app.py has no model and no availability flags
Startup ==
    /\ phase = "starting"
    /\ phase' = "serving"
    /\ TF_AVAILABLE' = (appKind = "app" /\ environ.tensorflow)
    /\ CONFIG_AVAILABLE' = (appKind = "app" /\ environ.config)
    /\ model' = (IF appKind = "app" THEN StartupModel(environ) ELSE None)
    /\ environ' = DemoEnviron
    /\ UNCHANGED <<appKind, clock, fs, req, labelRun, toolVars>>

\* time passes between two readings of datetime.now()
Tick ==
    /\ clock < MaxClock
    /\ clock' = clock + 1
    /\ UNCHANGED <<appKind, environ, phase, TF_AVAILABLE, CONFIG_AVAILABLE,
                   model, fs, req, labelRun, toolVars>>

\* app.py:110-132, demo_app.py:36-55: read the form, validate, name the temp
\* file. The early exits return here; in app.py their `finally` finds no
\* temp_path among the locals and removes nothing.
Receive(r, in) ==
    /\ phase = "serving"
    /\ req[r].pc = "idle"
    /\ LET rej == Rejection(appKind, in)
       IN  req' = [req EXCEPT ![r] =
                IF rej.status # 0
                THEN [IdleRequest EXCEPT !.pc = "done", !.input = in, !.resp = rej]
                ELSE [IdleRequest EXCEPT !.pc = "save", !.input = in,
                          !.temp_path = TempPath(clock, in.filename)]]
    /\ UNCHANGED <<appKind, environ, phase, TF_AVAILABLE, CONFIG_AVAILABLE,
                   model, clock, fs, labelRun, toolVars>>

\* app.py:135, demo_app.py:58: file.save(temp_path). It raises without
\* creating a file when the path names a missing directory, and after
\* creating one when the disk fills up; both handlers answer 500.
Save(r) ==
    /\ req[r].pc = "save"
    /\ LET in == req[r].input
           path == req[r].temp_path
       IN  \E created \in SaveCreates(in.filename) :
           IF ~created
           THEN /\ fs' = fs
                /\ req' = [req EXCEPT ![r].pc = "finally",
                                      ![r].invoked = @ \cup {"save"},
                                      ![r].resp = ProcessingFailed(ErrNoSuchDir)]
           ELSE /\ fs' = fs \cup {path}
                /\ req' = [req EXCEPT
                       ![r].pc = IF in.disk = "full" THEN "finally" ELSE "predict",
                       ![r].invoked = @ \cup {"save"},
                       ![r].saved = TRUE,
                       ![r].resp = IF in.disk = "full"
                                   THEN ProcessingFailed(ErrNoSpace) ELSE @]
    /\ UNCHANGED <<appKind, environ, phase, TF_AVAILABLE, CONFIG_AVAILABLE,
                   model, clock, labelRun, toolVars>>

\* app.py:171, 176: the generator answers, flagged demo_mode
AnswerFromGenerator(r, called) ==
    \E u \in RandomUnit, dp \in Uniform(DemoParasitizedLo, DemoParasitizedHi),
       du \in Uniform(DemoUninfectedLo, DemoUninfectedHi) :
        req' = [req EXCEPT
            ![r].pc = "finally",
            ![r].invoked = @ \cup called \cup {"generator"},
            ![r].producer = "generator",
            ![r].resp = ResponseData(generate_demo_prediction(u, dp, du), TRUE, clock)]

\* app.py:138-192
PredictApp(r) ==
    /\ appKind = "app"
    /\ req[r].pc = "predict"
    /\ IF UseModel(model, TF_AVAILABLE)
       THEN \E probs \in ModelOutputs(model) :
               LET mp == ModelPrediction(req[r].input.content, probs)
               IN  IF mp.raised
                   THEN AnswerFromGenerator(r, {"model"})
                   ELSE req' = [req EXCEPT
                            ![r].pc = "finally",
                            ![r].invoked = @ \cup {"model"},
                            ![r].producer = "model",
                            ![r].resp = ResponseData(mp.value, FALSE, clock)]
       ELSE AnswerFromGenerator(r, {})
    /\ UNCHANGED <<appKind, environ, phase, TF_AVAILABLE, CONFIG_AVAILABLE,
                   model, clock, fs, labelRun, toolVars>>

\* demo_app.py:60-90
PredictDemoApp(r) ==
    /\ appKind = "demo_app"
    /\ req[r].pc = "predict"
    /\ \E u \in RandomUnit, dp \in Uniform(DemoParasitizedLo, DemoParasitizedHi),
          du \in Uniform(DemoUninfectedLo, DemoUninfectedHi) :
           req' = [req EXCEPT
               ![r].pc = "finally",
               ![r].invoked = @ \cup {"generator"},
               ![r].producer = "generator",
               ![r].resp = DemoAppResponseData(demo_app_prediction(u, dp, du), clock)]
    /\ UNCHANGED <<appKind, environ, phase, TF_AVAILABLE, CONFIG_AVAILABLE,
                   model, clock, fs, labelRun, toolVars>>

CleanupOnSuccessOnly(status, path, files) == status = 200 /\ path \in files

\* app.py:200-203, demo_app.py:95-97: the `finally` clause runs whatever the
\* status of the response and tests os.path.exists(temp_path)
CleanupWanted(status, path, files) == path \in files

CleanupExists(r) ==
    /\ req[r].pc = "finally"
    /\ req' = [req EXCEPT ![r].pc =
                  IF CleanupWanted(req[r].resp.status, req[r].temp_path, fs)
                  THEN "remove" ELSE "done"]
    /\ UNCHANGED <<appKind, environ, phase, TF_AVAILABLE, CONFIG_AVAILABLE,
                   model, clock, fs, labelRun, toolVars>>

\* os.remove may fail; the model follows the process through failures that
\* leave one file behind, not through a directory filling up with them
RemoveMayFail(path, files) == files \subseteq {path}

\* app.py:204-206, demo_app.py:98-101: os.remove(temp_path); a failure of
\* os.remove is swallowed and leaves the file
CleanupRemove(r) ==
    /\ req[r].pc = "remove"
    /\ \E failed \in BOOLEAN :
        /\ failed => RemoveMayFail(req[r].temp_path, fs)
        /\ fs' = IF failed THEN fs ELSE fs \ {req[r].temp_path}
        /\ req' = [req EXCEPT ![r].pc = "done", ![r].removeFailed = failed]
    /\ UNCHANGED <<appKind, environ, phase, TF_AVAILABLE, CONFIG_AVAILABLE,
                   model, clock, labelRun, toolVars>>

\* the handler has returned; the worker takes the next request
Finish(r) ==
    /\ req[r].pc = "done"
    /\ req' = [req EXCEPT ![r] = IdleRequest]
    /\ UNCHANGED <<appKind, environ, phase, TF_AVAILABLE, CONFIG_AVAILABLE,
                   model, clock, fs, labelRun, toolVars>>

NextServing ==
    \/ Startup
    \/ Tick
    \/ \E r \in Serial, in \in Inputs : Receive(r, in)
    \/ \E r \in Serial : Save(r)
    \/ \E r \in Serial : PredictApp(r)
    \/ \E r \in Serial : PredictDemoApp(r)
    \/ \E r \in Serial : CleanupExists(r)
    \/ \E r \in Serial : CleanupRemove(r)
    \/ \E r \in Serial : Finish(r)

MoreOff ==
    data = Off /\ img = Off /\ launch = Off /\ report = Off /\ health = Off

ToolsOff == train = Off /\ batch = Off /\ cw = Off /\ MoreOff

Init == InitServing /\ labelRun = "none" /\ ToolsOff

Next == NextServing

Spec == Init /\ [][Next]_vars

-----------------------------------------------------------------------------
(* Two requests at a time: the threaded server of app.run *)

\* well-formed uploads, all under the same client file name
ConcurrentInputs ==
    {in \in Inputs : /\ ~in.oversize /\ in.hasImage
                     /\ in.filename = NamePngLower
                     /\ in.content = "image" /\ in.disk = "ok"}

\* a process without a model, which never reads the temp file back
InitConcurrent ==
    /\ InitServing
    /\ environ = DemoEnviron
    /\ labelRun = "none"
    /\ ToolsOff

NextConcurrent ==
    \/ Startup
    \/ Tick
    \/ \E r \in Requests, in \in ConcurrentInputs : Receive(r, in)
    \/ \E r \in Requests : Save(r)
    \/ \E r \in Requests : PredictApp(r)
    \/ \E r \in Requests : PredictDemoApp(r)
    \/ \E r \in Requests : CleanupExists(r)
    \/ \E r \in Requests : CleanupRemove(r)
    \/ \E r \in Requests : Finish(r)

SpecConcurrent == InitConcurrent /\ [][NextConcurrent]_vars

-----------------------------------------------------------------------------
(* Uploads whose client file name holds path separators *)

TraversalInputs ==
    [oversize : {FALSE}, hasImage : {TRUE},
     filename : {NamePngLower, NameInSubdir, NameParent, NameBack, NameEscape},
     content : {"image"}, disk : {"ok"}]

NextTraversal ==
    \/ Startup
    \/ Tick
    \/ \E r \in Serial, in \in TraversalInputs : Receive(r, in)
    \/ \E r \in Serial : Save(r)
    \/ \E r \in Serial : PredictApp(r)
    \/ \E r \in Serial : PredictDemoApp(r)
    \/ \E r \in Serial : CleanupExists(r)
    \/ \E r \in Serial : CleanupRemove(r)
    \/ \E r \in Serial : Finish(r)

SpecTraversal == Init /\ [][NextTraversal]_vars

-----------------------------------------------------------------------------
(* The health endpoint of app.py beside its prediction endpoint *)

HealthFlagsFromLibrary(m, tf, cfg, now) ==
    [pc |-> "answered", model_loaded |-> tf, tensorflow_available |-> tf,
     config_available |-> cfg, demo_mode |-> ~tf, timestamp |-> now]

\* app.py:231-241
HealthFlags(m, tf, cfg, now) ==
    [pc |-> "answered", model_loaded |-> m # None, tensorflow_available |-> tf,
     config_available |-> cfg, demo_mode |-> m = None, timestamp |-> now]

\* uploads that reach the prediction branch or are turned away before it
HealthInputs ==
    {in \in Inputs : /\ ~in.oversize /\ in.hasImage
                     /\ in.filename \in {NamePngLower, NameTxt}
                     /\ in.disk = "ok"}

InitHealth ==
    /\ InitServing
    /\ appKind = "app"
    /\ labelRun = "none"
    /\ ToolsOff

\* GET /api/health: reads the three globals, writes nothing
health_check ==
    /\ phase = "serving"
    /\ health' = HealthFlags(model, TF_AVAILABLE, CONFIG_AVAILABLE, clock)
    /\ UNCHANGED <<servingVars, labelRun, train, batch, cw, data, img, launch,
                   report>>

NextHealth ==
    \/ Startup
    \/ Tick
    \/ health_check
    \/ \E r \in Serial, in \in HealthInputs : Receive(r, in)
    \/ \E r \in Serial : Save(r)
    \/ \E r \in Serial : PredictApp(r)
    \/ \E r \in Serial : CleanupExists(r)
    \/ \E r \in Serial : CleanupRemove(r)
    \/ \E r \in Serial : Finish(r)

SpecHealth == InitHealth /\ [][NextHealth]_vars

-----------------------------------------------------------------------------
(* run_demo.py: the quick-start script that starts app.py *)

\* run_demo.py:35-43
check_model_exists(e) == e.modelsDir /\ e.modelFiles # <<>>

\* run_demo.py:99-108
Announcement(has_model) == IF has_model THEN "production" ELSE "demo"

\* missing_deps: whether flask, numpy or Pillow fails to import; port_free:
\* whether port 5000 can be bound
InitLaunch ==
    /\ InitServing
    /\ appKind = "app"
    /\ launch \in {[pc |-> "dependencies", missing_deps |-> d, port_free |-> f,
                    announced |-> "none"] : d, f \in BOOLEAN}
    /\ labelRun = "none" /\ train = Off /\ batch = Off /\ cw = Off
    /\ data = Off /\ img = Off /\ report = Off /\ health = Off

launchFrame == <<servingVars, labelRun, train, batch, cw, data, img, report,
                 health>>

\* run_demo.py:76-84
CheckDependencies ==
    /\ launch.pc = "dependencies"
    /\ launch' = [launch EXCEPT
                     !.pc = IF launch.missing_deps THEN "exit" ELSE "port"]
    /\ UNCHANGED launchFrame

\* run_demo.py:87-94
CheckPort ==
    /\ launch.pc = "port"
    /\ launch' = [launch EXCEPT
                     !.pc = IF launch.port_free THEN "announce" ELSE "exit"]
    /\ UNCHANGED launchFrame

\* run_demo.py:97-127
Announce ==
    /\ launch.pc = "announce"
    /\ launch' = [launch EXCEPT
                     !.announced = Announcement(check_model_exists(environ)),
                     !.pc = "import"]
    /\ UNCHANGED launchFrame

\* run_demo.py:131-132: `from app import app` runs the module-level code of
\* app.py, then the server takes requests
ImportApp ==
    /\ launch.pc = "import"
    /\ Startup

NextLaunch ==
    \/ CheckDependencies
    \/ CheckPort
    \/ Announce
    \/ ImportApp
    \/ Tick
    \/ \E r \in Serial, in \in HealthInputs : Receive(r, in)
    \/ \E r \in Serial : Save(r)
    \/ \E r \in Serial : PredictApp(r)
    \/ \E r \in Serial : CleanupExists(r)
    \/ \E r \in Serial : CleanupRemove(r)
    \/ \E r \in Serial : Finish(r)

SpecLaunch == InitLaunch /\ [][NextLaunch]_vars

-----------------------------------------------------------------------------
(* Class indices: what training assigns and what inference looks up *)

ClassDirs == {"Parasitized", "Uninfected"}

Alphabet ==
    <<"A", "B", "C", "D", "E", "F", "G", "H", "I", "J", "K", "L", "M",
      "N", "O", "P", "Q", "R", "S", "T", "U", "V", "W", "X", "Y", "Z">>

Rank(ch) == CHOOSE i \in 1..Len(Alphabet) : Alphabet[i] = ch

Initial(name) == IF name = "Parasitized" THEN "P" ELSE "U"

\* sorted(os.listdir(data_dir)): the two names differ in their first letter
SortedDirs ==
    CHOOSE s \in [1..2 -> ClassDirs] :
        /\ s[1] # s[2]
        /\ Rank(Initial(s[1])) < Rank(Initial(s[2]))

Trainers == {"train", "train_model"}
InferenceScripts == {"predict", "app", "save_and_predict"}

\* the class_names of image_dataset_from_directory: data_loader.py:34-46
\* passes class_names=CLASS_NAMES; train_model.py:51-61 passes none, and
\* Keras then takes the subdirectory names in alphanumeric order
TrainClassNames(trainer) ==
    IF trainer = "train" THEN CLASS_NAMES ELSE SortedDirs

\* the 0-based label index a training script gives to a class
TrainIndex(trainer, cls) ==
    (CHOOSE i \in 1..2 : TrainClassNames(trainer)[i] = cls) - 1

\* config.py:16 (train.py, predict.py, app.py); train_model.py:32 and
\* save_and_predict.py:51
TrainImgSize(trainer) == IF trainer = "train" THEN 128 ELSE 64
InferImgSize(script) == IF script = "save_and_predict" THEN 64 ELSE 128

\* What a model that has learnt its labels answers for a cell of class cls,
\* with q > 1/2 the probability it gives to the cell's label:
\* model.py:58 ends in softmax over the two label indices, train_model.py:127
\* in one sigmoid unit, the probability of label 1
TrainedOutput(trainer, cls, q) ==
    IF trainer = "train"
    THEN [i \in 1..2 |-> IF i - 1 = TrainIndex(trainer, cls) THEN q ELSE One - q]
    ELSE <<IF TrainIndex(trainer, cls) = 1 THEN q ELSE One - q>>

\* predict.py:23-26 and app.py:153-156
ArgmaxLabel(probs) == CLASS_NAMES[Argmax(probs)]

\* save_and_predict.py:49-78: CLASS_NAMES[int(prediction[0][0] >= 0.5)]
ThresholdLabel(probs) == CLASS_NAMES[(IF 2 * probs[1] >= One THEN 1 ELSE 0) + 1]

InferLabel(script, probs) ==
    IF script = "save_and_predict" THEN ThresholdLabel(probs) ELSE ArgmaxLabel(probs)

\* the probabilities above 1/2, every half DrawStep
Confident == {q \in 0..One : 2 * q > One /\ (2 * q) % DrawStep = 0}

NoRun ==
    [pc |-> "none", trainer |-> "train", script |-> "predict",
     cell |-> "Uninfected", class_names |-> <<>>, output |-> <<>>,
     label |-> None]

InitLabels ==
    /\ labelRun \in {[NoRun EXCEPT !.pc = "data", !.trainer = t, !.script = s,
                             !.cell = c] :
                        t \in Trainers, s \in InferenceScripts, c \in ClassDirs}
    /\ appKind = "app"
    /\ environ = DemoEnviron
    /\ phase = "starting"
    /\ TF_AVAILABLE = FALSE
    /\ CONFIG_AVAILABLE = FALSE
    /\ model = None
    /\ clock = 0
    /\ fs = {}
    /\ req = [r \in Requests |-> IdleRequest]
    /\ ToolsOff

\* data_loader.py:34-60, train_model.py:51-75: the dataset is labelled and
\* the model is fitted to those labels
Train ==
    /\ labelRun.pc = "data"
    /\ labelRun' = [labelRun EXCEPT
           !.pc = "trained",
           !.class_names = TrainClassNames(labelRun.trainer)]
    /\ UNCHANGED <<servingVars, toolVars>>

\* the inference script preprocesses a cell image to its own IMG_SIZE and
\* calls the model; a model built for another input size raises
Forward ==
    /\ labelRun.pc = "trained"
    /\ IF TrainImgSize(labelRun.trainer) # InferImgSize(labelRun.script)
       THEN labelRun' = [labelRun EXCEPT !.pc = "shape_error"]
       ELSE \E q \in Confident :
               labelRun' = [labelRun EXCEPT
                   !.pc = "forwarded",
                   !.output = TrainedOutput(labelRun.trainer, labelRun.cell, q)]
    /\ UNCHANGED <<servingVars, toolVars>>

\* the inference script turns the output into a label
Report ==
    /\ labelRun.pc = "forwarded"
    /\ labelRun' = [labelRun EXCEPT
           !.pc = "reported",
           !.label = InferLabel(labelRun.script, labelRun.output)]
    /\ UNCHANGED <<servingVars, toolVars>>

NextLabels == Train \/ Forward \/ Report

SpecLabels == InitLabels /\ [][NextLabels]_vars

(***************************************************************************)
(* Training: model.fit with its callbacks (train.py, train_model.py)       *)
(***************************************************************************)

\* the largest epoch limit looked at; it stands for EPOCHS = 15
MaxEpochs == 6

\* the epoch limit of the long plateau runs, passed as --epochs
MaxLongEpochs == 22

\* model.py:63, train_model.py:139: Adam(learning_rate=1e-3). Learning
\* rates are counted in units of 1e-6 / 1024, so that ten halvings are exact.
InitialLr == 1024000

\* train.py:78, train_model.py:160: min_lr=1e-6, in the same unit
MinLr == 1024

\* train.py:76, train_model.py:158: factor=0.5, as a divisor
FactorDivisor == 2

\* train.py:77, train_model.py:159: patience=2 of ReduceLROnPlateau
LrPatience == 2

\* ReduceLROnPlateau's default min_delta=1e-4. Validation losses are counted
\* in units of 0.5e-4, so that a loss can improve by less than min_delta.
LrMinDelta == 2

\* train.py:70 patience=4, train_model.py:166 patience=5
StopPatience(script) == IF script = "train" THEN 4 ELSE 5

\* ModelCheckpoint starts from best = -inf, the val_loss monitors from +inf
NoAccuracy == -1
NoLoss == -1

TrainScripts == {"train", "train_model"}

\* the validation metrics an epoch can end with: val_accuracy in hundredths,
\* val_loss in units of 0.5e-4 around one level
ShortLogs ==
    { [val_loss |-> 52, val_accuracy |-> 70],
      [val_loss |-> 51, val_accuracy |-> 85],
      [val_loss |-> 53, val_accuracy |-> 80],
      [val_loss |-> 49, val_accuracy |-> 90] }

\* plateau runs: the loss creeps down by less than min_delta at a time
LongLogs == { [val_loss |-> l, val_accuracy |-> 70] : l \in 45..50 }

EpochLogs(mode) == IF mode = "short" THEN ShortLogs ELSE LongLogs

\* train.py:32 --epochs is any integer, train_model.py:34 EPOCHS is fixed
EpochLimits(script, mode) ==
    IF mode = "long" THEN {MaxLongEpochs}
    ELSE IF script = "train" THEN 0..MaxEpochs
    ELSE {MaxEpochs}

\* the state of a run when model.fit is entered: weights 0 are the initial
\* weights, artifact 0 is no file at model_path, es_best_weights 0 is None
NewRun(script, mode, epochs) ==
    [pc |-> "fit", script |-> script, mode |-> mode, epochs |-> epochs,
     epoch |-> 0, weights |-> 0, artifact |-> 0, ckpt_best |-> NoAccuracy,
     es_wait |-> 0, es_best |-> NoLoss, es_best_epoch |-> 0,
     es_best_weights |-> 0, stopped_epoch |-> 0, stop_training |-> FALSE,
     rlr_wait |-> 0, rlr_best |-> NoLoss, lr |-> InitialLr,
     hist |-> <<>>, low |-> NoLoss, stale |-> 0, halved_at |-> 0,
     terminal |-> "none", history_file |-> <<>>, returned |-> 0,
     reported_saved |-> FALSE]

\* monitor_op of a val_loss monitor: np.less(current - min_delta, best)
LossImproved(current, best, min_delta) ==
    best = NoLoss \/ current < best - min_delta

SavesOnTie(current, best) == current >= best

\* monitor_op of the val_accuracy monitor: np.greater(current, best)
AccuracyImproved(current, best) == current > best

\* train.py:62-67, train_model.py:149-154: ModelCheckpoint.on_epoch_end with
\* save_best_only=True
Checkpoint(t, log) ==
    IF AccuracyImproved(log.val_accuracy, t.ckpt_best)
    THEN [t EXCEPT !.ckpt_best = log.val_accuracy, !.artifact = t.weights]
    ELSE t

StopsWithoutRestore(t) == t.weights

\* the weights the model holds once EarlyStopping has stopped the run
RestoredWeights(t) == t.es_best_weights

\* train.py:68-73, train_model.py:164-169: EarlyStopping.on_epoch_end with
\* restore_best_weights=True
EarlyStopping(t, log) ==
    LET t1 == IF t.es_best_weights = 0
              THEN [t EXCEPT !.es_best_weights = t.weights,
                             !.es_best_epoch = t.epoch]
              ELSE t
        wait == t1.es_wait + 1
    IN  IF LossImproved(log.val_loss, t1.es_best, 0)
        THEN [t1 EXCEPT !.es_best = log.val_loss,
                        !.es_best_epoch = t.epoch,
                        !.es_best_weights = t.weights,
                        !.es_wait = 0]
        ELSE IF wait >= StopPatience(t.script) /\ t.epoch > 1
        THEN [t1 EXCEPT !.es_wait = wait,
                        !.stopped_epoch = t.epoch,
                        !.stop_training = TRUE,
                        !.weights = RestoredWeights(t1)]
        ELSE [t1 EXCEPT !.es_wait = wait]

KeptRate(lr) == lr

HalvedUnclipped(lr) == lr \div FactorDivisor

\* new_lr = max(old_lr * factor, min_lr)
Halved(lr) == Max({lr \div FactorDivisor, MinLr})

\* train.py:74-80, train_model.py:156-162: ReduceLROnPlateau.on_epoch_end
ReduceLROnPlateau(t, log) ==
    IF LossImproved(log.val_loss, t.rlr_best, LrMinDelta)
    THEN [t EXCEPT !.rlr_best = log.val_loss, !.rlr_wait = 0]
    ELSE LET wait == t.rlr_wait + 1
         IN  IF wait >= LrPatience /\ t.lr > MinLr
             THEN [t EXCEPT !.lr = Halved(t.lr), !.rlr_wait = 0]
             ELSE [t EXCEPT !.rlr_wait = wait]

\* train.py:61-81, train_model.py:147-170: the callbacks run in list order
RunCallbacks(t, log) ==
    IF t.script = "train"
    THEN ReduceLROnPlateau(EarlyStopping(Checkpoint(t, log), log), log)
    ELSE EarlyStopping(ReduceLROnPlateau(Checkpoint(t, log), log), log)

\* what the History callback appends for the epoch; a long run keeps no logs
\* in the state, only their summary
Remember(t, entry) ==
    IF t.mode = "short" THEN Append(t.hist, entry) ELSE t.hist

\* the summary of the logs so far: the lowest val_loss, the number of epochs
\* since it was reached, and the last epoch at whose end the rate changed
Summarised(before, after, log) ==
    LET better == before.low = NoLoss \/ log.val_loss < before.low
    IN  [after EXCEPT
            !.low = IF better THEN log.val_loss ELSE before.low,
            !.stale = IF better THEN 0 ELSE before.stale + 1,
            !.halved_at = IF after.lr # before.lr THEN after.epoch
                          ELSE before.halved_at]

FitIgnoresStop(t) == t.pc = "fit" /\ t.epoch < t.epochs

\* the loop of model.fit goes on: for epoch in range(epochs), left by break
\* when a callback has set stop_training
FitContinues(t) == t.pc = "fit" /\ t.epoch < t.epochs /\ ~t.stop_training

InitTrain ==
    /\ train \in { NewRun(s, "short", n) :
                     s \in TrainScripts, n \in 0..MaxEpochs }
    /\ train.epochs \in EpochLimits(train.script, "short")
    /\ labelRun = NoRun /\ batch = Off /\ cw = Off /\ MoreOff
    /\ appKind = "app"
    /\ environ = DemoEnviron
    /\ phase = "starting"
    /\ TF_AVAILABLE = FALSE
    /\ CONFIG_AVAILABLE = FALSE
    /\ model = None
    /\ clock = 0
    /\ fs = {}
    /\ req = [r \in Requests |-> IdleRequest]

InitDecay ==
    /\ train \in { NewRun(s, "long", MaxLongEpochs) : s \in TrainScripts }
    /\ labelRun = NoRun /\ batch = Off /\ cw = Off /\ MoreOff
    /\ appKind = "app"
    /\ environ = DemoEnviron
    /\ phase = "starting"
    /\ TF_AVAILABLE = FALSE
    /\ CONFIG_AVAILABLE = FALSE
    /\ model = None
    /\ clock = 0
    /\ fs = {}
    /\ req = [r \in Requests |-> IdleRequest]

\* train.py:84-90, train_model.py:176-181: one epoch of model.fit, the
\* training pass, the validation pass and every callback's on_epoch_end
Epoch ==
    /\ FitContinues(train)
    /\ \E log \in EpochLogs(train.mode) :
         LET started == [train EXCEPT !.epoch = train.epoch + 1,
                                      !.weights = train.epoch + 1]
             entry == [val_loss |-> log.val_loss,
                       val_accuracy |-> log.val_accuracy,
                       lr |-> train.lr]
             ended == RunCallbacks(started, log)
         IN  train' = Summarised(train,
                                 [ended EXCEPT !.hist = Remember(train, entry)],
                                 log)
    /\ UNCHANGED <<servingVars, labelRun, batch, cw, moreVars>>

HistoryMetrics == {"val_loss", "val_accuracy", "lr"}

HistoryWithoutLast(hist) ==
    [k \in HistoryMetrics |-> [i \in 1..(Len(hist) - 1) |-> hist[i][k]]]

\* train.py:95-99, train_model.py:194-199: the dictionary json.dump writes,
\* history.history with a list per metric; it has no key before an epoch ends
HistoryRecord(hist) ==
    IF hist = <<>> THEN <<>>
    ELSE [k \in HistoryMetrics |-> [i \in 1..Len(hist) |-> hist[i][k]]]

\* the terminal state of the epoch loop
Terminal(t) ==
    IF t.stop_training THEN "EarlyStopped" ELSE "EpochLimitReached"

\* train.py:92-103, train_model.py:187-201: model.fit returns, after
\* on_train_end, which in Keras 3 restores the best weights of EarlyStopping
\* also when the epoch limit ended the run; the history is written, the
\* path is reported as saved and main returns the model it trained
AfterFit ==
    /\ train.pc = "fit"
    /\ ~FitContinues(train)
    /\ \E restores \in BOOLEAN :
         train' = [train EXCEPT
            !.pc = "done",
            !.terminal = Terminal(train),
            !.weights = IF restores /\ train.es_best_weights # 0
                        THEN train.es_best_weights ELSE @,
            !.returned = IF restores /\ train.es_best_weights # 0
                         THEN train.es_best_weights ELSE train.weights,
            !.history_file = HistoryRecord(train.hist),
            !.reported_saved = TRUE]
    /\ UNCHANGED <<servingVars, labelRun, batch, cw, moreVars>>

NextTrain == Epoch \/ AfterFit

SpecTrain == InitTrain /\ [][NextTrain]_vars

SpecDecay == InitDecay /\ [][NextTrain]_vars

\* a run that is not killed goes on to its next step
SpecTrainFair == SpecTrain /\ WF_vars(NextTrain)

(***************************************************************************)
(* predict.py: one image, or every image of a folder                       *)
(***************************************************************************)

NameNoDot == <<"c", "p", "n", "g">>

\* the names a folder may hold; the last two do not end in an extension
FolderNames ==
    {NamePngLower, NamePngUpper, NameJpgLower, NameJpgMixed, NameJpegUpper,
     NameDotfile, NameTxt, NameNoDot}

\* the characters of these names, in the order of their code points
CodePoints ==
    <<".", "E", "G", "J", "N", "P", "c", "e", "g", "j", "n", "p", "t", "x">>

Ord(ch) == CHOOSE i \in 1..Len(CodePoints) : CodePoints[i] = ch

Min(S) == CHOOSE x \in S : \A y \in S : x <= y

\* a < b for two str, as Python compares them
StrLess(a, b) ==
    \/ \E k \in 1..Min({Len(a), Len(b)}) :
          /\ \A i \in 1..(k - 1) : a[i] = b[i]
          /\ Ord(a[k]) < Ord(b[k])
    \/ /\ Len(a) < Len(b)
       /\ \A i \in 1..Len(a) : a[i] = b[i]

Range(l) == {l[i] : i \in 1..Len(l)}

RECURSIVE SortedSet(_)
SortedSet(S) ==
    IF S = {} THEN <<>>
    ELSE LET least == CHOOSE x \in S : \A y \in S \ {x} : StrLess(x, y)
         IN  <<least>> \o SortedSet(S \ {least})

Unsorted(l) == l

\* sorted(l) of a list of distinct names
Sorted(l) == SortedSet(Range(l))

Reversed(l) == [i \in 1..Len(l) |-> l[Len(l) + 1 - i]]

Rotated(l) == IF l = <<>> THEN l ELSE Tail(l) \o <<Head(l)>>

\* os.listdir: the entries in arbitrary order
ListDir(entries) ==
    LET l == SortedSet(entries) IN {l, Reversed(l), Rotated(l)}

EndsWithAnything(s, suffixes) == TRUE

\* str.endswith with a tuple of suffixes
EndsWith(s, suffixes) ==
    \E x \in suffixes :
        /\ Len(x) <= Len(s)
        /\ SubSeq(s, Len(s) - Len(x) + 1, Len(s)) = x

\* predict.py:29: extensions=(".png", ".jpg", ".jpeg")
extensions == {ExtPngLower, ExtJpgLower, ExtJpegLower}

FolderPath == <<"d">>

\* os.path.join(folder_path, f)
Join(folder, f) == folder \o <<"/">> \o f

\* the outputs of the loaded model on a readable image
BatchOutputs == {<<80, 20>>, <<30, 70>>}

CatchesNothing(exc) == FALSE

\* except Exception: every failure of the per-file work is an Exception
CaughtAsException(exc) == exc \in {"ValueError", "Exception"}

\* predict.py:20-26 with preprocess.py:14-16: load_and_preprocess raises
\* ValueError when cv2.imread cannot read the file
predict_single_image(path, content, probs) ==
    IF content = "corrupt"
    THEN [raised |-> TRUE, exc |-> "ValueError",
          message |-> <<"Could not read image", path>>]
    ELSE [raised |-> FALSE,
          pred_idx |-> Argmax(probs) - 1,
          label |-> CLASS_NAMES[Argmax(probs)],
          confidence |-> probs[Argmax(probs)],
          probs |-> probs]

\* f"{conf:.4f}": hundredths written with four decimals
Format4(conf) == conf * 100

\* predict.py:66-69: the row of one record
Row(rec) ==
    IF rec.label = None
    THEN <<rec.path, "ERROR", rec.conf>>
    ELSE <<rec.path, rec.label, Format4(rec.conf)>>

HeaderRow == <<"file", "diagnosis", "confidence">>

\* the folders looked at: which names they hold and which of the files
\* cannot be read as an image
Folders ==
    { [entries |-> S, corrupt |-> C] :
        S \in SUBSET FolderNames, C \in SUBSET FolderNames }

InitBatch ==
    /\ \E folder \in Folders, probs \in BatchOutputs :
         /\ folder.corrupt \subseteq folder.entries
         /\ \A f \in folder.corrupt : EndsWith(Lower(f), extensions)
         /\ batch = [pc |-> "start", mode |-> "folder",
                     entries |-> folder.entries, corrupt |-> folder.corrupt,
                     probs |-> probs, listing |-> <<>>, todo |-> <<>>,
                     records |-> <<>>, rows |-> <<HeaderRow>>,
                     result |-> None]
    /\ labelRun = NoRun /\ train = Off /\ cw = Off /\ MoreOff
    /\ appKind = "app"
    /\ environ = DemoEnviron
    /\ phase = "starting"
    /\ TF_AVAILABLE = FALSE
    /\ CONFIG_AVAILABLE = FALSE
    /\ model = None
    /\ clock = 0
    /\ fs = {}
    /\ req = [r \in Requests |-> IdleRequest]

\* predict.py:31: sorted(os.listdir(folder_path)), evaluated when the
\* generator is first advanced
ListFolder ==
    /\ batch.pc = "start" /\ batch.mode = "folder"
    /\ \E l \in ListDir(batch.entries) :
         batch' = [batch EXCEPT !.pc = "loop", !.listing = l,
                                !.todo = Sorted(l)]
    /\ UNCHANGED <<servingVars, labelRun, train, cw, moreVars>>

\* predict.py:31-38 and 65-69: the loop goes to the next name; a name with
\* one of the extensions gives one record, which main turns into a row
NextFile ==
    /\ batch.pc = "loop" /\ batch.todo # <<>>
    /\ LET f == Head(batch.todo)
           path == Join(FolderPath, f)
           content == IF f \in batch.corrupt THEN "corrupt" ELSE "image"
           out == predict_single_image(path, content, batch.probs)
           rec == IF out.raised
                  THEN [path |-> path, label |-> None, conf |-> out.message]
                  ELSE [path |-> path, label |-> out.label,
                        conf |-> out.confidence]
       IN  IF ~EndsWith(Lower(f), extensions)
           THEN batch' = [batch EXCEPT !.todo = Tail(@)]
           ELSE IF out.raised /\ ~CaughtAsException(out.exc)
           THEN batch' = [batch EXCEPT !.pc = "crashed", !.result = out.exc]
           ELSE batch' = [batch EXCEPT !.todo = Tail(@),
                                       !.records = Append(@, rec),
                                       !.rows = Append(@, Row(rec))]
    /\ UNCHANGED <<servingVars, labelRun, train, cw, moreVars>>

\* predict.py:71-78: the rows are written or printed
WriteRows ==
    /\ batch.pc = "loop" /\ batch.todo = <<>>
    /\ batch' = [batch EXCEPT !.pc = "done", !.result = batch.rows]
    /\ UNCHANGED <<servingVars, labelRun, train, cw, moreVars>>

NextBatch == ListFolder \/ NextFile \/ WriteRows

SpecBatch == InitBatch /\ [][NextBatch]_vars

\* the output vectors a loaded model can give for one image: the softmax of
\* build_cnn over two classes, or the single sigmoid unit of train_model.py
SingleOutputs == ModelOutputs("softmax2") \cup ModelOutputs("sigmoid1")

NotRun == [ran |-> FALSE]

InitSingle ==
    /\ \E content \in {"image", "corrupt"}, probs \in SingleOutputs :
         batch = [pc |-> "start", mode |-> "image", content |-> content,
                  probs |-> probs, cli |-> NotRun, web |-> NotRun]
    /\ labelRun = NoRun /\ train = Off /\ cw = Off /\ MoreOff
    /\ appKind = "app"
    /\ environ = DemoEnviron
    /\ phase = "starting"
    /\ TF_AVAILABLE = FALSE
    /\ CONFIG_AVAILABLE = FALSE
    /\ model = None
    /\ clock = 0
    /\ fs = {}
    /\ req = [r \in Requests |-> IdleRequest]

\* predict.py:55-61: --image; an exception of predict_single_image ends the
\* program with a traceback
PredictImage ==
    /\ batch.mode = "image" /\ ~batch.cli.ran
    /\ LET out == predict_single_image(<<"c">>, batch.content, batch.probs)
       IN  batch' = [batch EXCEPT !.cli =
              IF out.raised
              THEN [ran |-> TRUE, raised |-> TRUE]
              ELSE [ran |-> TRUE, raised |-> FALSE, pred_idx |-> out.pred_idx,
                    label |-> out.label, confidence |-> out.confidence]]
    /\ UNCHANGED <<servingVars, labelRun, train, cw, moreVars>>

\* app.py:138-171: the model branch of api_predict on the same image and
\* output, with its fall back to the generator
ModelBranch ==
    /\ batch.mode = "image" /\ ~batch.web.ran
    /\ LET mp == ModelPrediction(batch.content, batch.probs)
       IN  IF mp.raised
           THEN \E u \in RandomUnit,
                   dp \in Uniform(DemoParasitizedLo, DemoParasitizedHi),
                   du \in Uniform(DemoUninfectedLo, DemoUninfectedHi) :
                  LET p == generate_demo_prediction(u, dp, du)
                  IN  batch' = [batch EXCEPT !.web =
                         [ran |-> TRUE, demo_mode |-> TRUE,
                          label |-> p.label, confidence |-> p.confidence]]
           ELSE batch' = [batch EXCEPT !.web =
                   [ran |-> TRUE, demo_mode |-> FALSE,
                    label |-> mp.value.label,
                    confidence |-> mp.value.confidence]]
    /\ UNCHANGED <<servingVars, labelRun, train, cw, moreVars>>

NextSingle == PredictImage \/ ModelBranch

SpecSingle == InitSingle /\ [][NextSingle]_vars

(***************************************************************************)
(* data_loader.py: get_class_weights                                       *)
(***************************************************************************)

\* the kinds of file name a class directory may hold, each standing for all
\* the files named alike, and how many of a kind there may be
FileKinds == {NamePngLower, NameJpgMixed, NameTxt}

FileCounts == {0, 1, 25, 100}

EmptyDir == [k \in FileKinds |-> 0]

\* a class directory: whether it exists, and how many files of each kind
ClassDirStates ==
    { [isdir |-> TRUE, files |-> fl] : fl \in [FileKinds -> FileCounts] }
        \cup { [isdir |-> FALSE, files |-> EmptyDir] }

RECURSIVE SumOver(_, _)
SumOver(f, S) ==
    IF S = {} THEN 0
    ELSE LET k == CHOOSE x \in S : TRUE IN f[k] + SumOver(f, S \ {k})

\* data_loader.py:75-78: len([f for f in os.listdir(path)
\* if f.lower().endswith((".png", ".jpg", ".jpeg"))]), or 0 without directory
CountImages(dir) ==
    IF dir.isdir
    THEN SumOver(dir.files,
                 {k \in FileKinds : EndsWith(Lower(k), extensions)})
    ELSE 0

InverseWeight(total, classes, c) == [num |-> classes * c, den |-> total]

\* total / (len(counts) * c), kept as a fraction
ClassWeight(total, classes, c) == [num |-> total, den |-> classes * c]

\* return None
NoWeights == [isNone |-> TRUE, weights |-> <<>>]

\* data_loader.py:70-83; the mapping has the indices of CLASS_NAMES from 0
get_class_weights(dirs) ==
    LET counts == [i \in 1..Len(CLASS_NAMES) |-> CountImages(dirs[CLASS_NAMES[i]])]
        total == SumOver(counts, DOMAIN counts)
    IN  IF total = 0 THEN NoWeights
        ELSE [isNone |-> FALSE,
              weights |->
                [i \in {j \in 0..(Len(counts) - 1) : counts[j + 1] > 0} |->
                    ClassWeight(total, Len(counts), counts[i + 1])]]

InitWeights ==
    /\ \E u \in ClassDirStates, p \in ClassDirStates :
         cw = [pc |-> "start",
               dirs |-> [Uninfected |-> u, Parasitized |-> p],
               class_weights |-> NoWeights, printed |-> FALSE]
    /\ labelRun = NoRun /\ train = Off /\ batch = Off /\ MoreOff
    /\ appKind = "app"
    /\ environ = DemoEnviron
    /\ phase = "starting"
    /\ TF_AVAILABLE = FALSE
    /\ CONFIG_AVAILABLE = FALSE
    /\ model = None
    /\ clock = 0
    /\ fs = {}
    /\ req = [r \in Requests |-> IdleRequest]

\* train.py:45: class_weights = get_class_weights(args.data_dir)
ComputeWeights ==
    /\ cw.pc = "start"
    /\ cw' = [cw EXCEPT !.pc = "computed",
                        !.class_weights = get_class_weights(cw.dirs)]
    /\ UNCHANGED <<servingVars, labelRun, train, batch, moreVars>>

\* train.py:46-47: if class_weights: print(...)
PrintWeights ==
    /\ cw.pc = "computed"
    /\ cw' = [cw EXCEPT !.pc = "done",
                        !.printed = ~cw.class_weights.isNone]
    /\ UNCHANGED <<servingVars, labelRun, train, batch, moreVars>>

NextWeights == ComputeWeights \/ PrintWeights

SpecWeights == InitWeights /\ [][NextWeights]_vars

(***************************************************************************)
(* Loading a data directory: data_loader.py and train_model.py             *)
(***************************************************************************)

\* the largest number of image files in the data directory
MaxImages == 5

\* config.py:22, train_model.py:35: 0.2, in hundredths
VALIDATION_SPLIT == 20

Loaders == {"data_loader", "train_model"}

\* RandomState(seed).shuffle of a list of n paths: some permutation, the
\* same one every time the same seed shuffles a list of the same length
SeededShuffles(n) ==
    {p \in [1..n -> 1..n] : \A i, j \in 1..n : p[i] = p[j] => i = j}

\* data_loader.py:27-32: the message names both class directories
NotFoundError ==
    [exc |-> "FileNotFoundError", raised_by |-> "get_dataset_from_folders",
     names |-> {"Parasitized", "Uninfected"}]

\* raised inside image_dataset_from_directory: class_names that are not the
\* subdirectories of the directory, or a directory without images
LibraryError ==
    [exc |-> "ValueError", raised_by |-> "image_dataset_from_directory",
     names |-> {}]

NoError == [exc |-> "none", raised_by |-> "none", names |-> {}]

\* the states of a data directory and the files the index finds in it, in
\* the order of the index; a directory without both classes has no index
DataDirs ==
    { [root |-> FALSE, subdirs |-> {}, n |-> 0] }
        \cup { [root |-> TRUE, subdirs |-> S, n |-> 0] :
                 S \in (SUBSET ClassDirs) \ {ClassDirs} }
        \cup { [root |-> TRUE, subdirs |-> ClassDirs, n |-> k] :
                 k \in 0..MaxImages }

\* int(validation_split * len(samples))
NumVal(n) == (VALIDATION_SPLIT * n) \div One

\* l[a:b] of Python for 0 <= a, b <= len(l)
Slice(l, a, b) == SubSeq(l, a + 1, b)

\* an index -k from the end, as a position: -0 is 0
FromEnd(l, k) == IF k = 0 THEN 0 ELSE Len(l) - k

\* index_directory: the files in sorted order, shuffled with the seed when
\* shuffle=True
Indexed(n, perm, shuffle) ==
    IF shuffle THEN [i \in 1..n |-> perm[i]] ELSE [i \in 1..n |-> i]

\* get_training_or_validation_split: samples[:-num_val] for the training
\* subset, samples[-num_val:] for the validation subset
Split(samples, subset) ==
    LET num_val == NumVal(Len(samples))
    IN  IF subset = "training"
        THEN Slice(samples, 0, FromEnd(samples, num_val))
        ELSE Slice(samples, FromEnd(samples, num_val), Len(samples))

\* data_loader.py:59 shuffle=True, train_model.py:72 shuffle=False
ValidationShuffle(script) == script = "data_loader"

InitData ==
    /\ \E s \in Loaders, d \in DataDirs :
         /\ s = "train_model" => d.subdirs = ClassDirs
         /\ \E perm \in SeededShuffles(d.n) :
              data = [pc |-> "start", script |-> s, root |-> d.root,
                      subdirs |-> d.subdirs, n |-> d.n, perm |-> perm,
                      train_ds |-> <<>>, val_ds |-> <<>>, error |-> NoError]
    /\ labelRun = NoRun /\ train = Off /\ batch = Off /\ cw = Off
    /\ img = Off /\ launch = Off /\ report = Off /\ health = Off
    /\ appKind = "app"
    /\ environ = DemoEnviron
    /\ phase = "starting"
    /\ TF_AVAILABLE = FALSE
    /\ CONFIG_AVAILABLE = FALSE
    /\ model = None
    /\ clock = 0
    /\ fs = {}
    /\ req = [r \in Requests |-> IdleRequest]

dataFrame ==
    <<servingVars, labelRun, train, batch, cw, img, launch, report, health>>

\* data_loader.py:26-32
CheckRoot ==
    /\ data.pc = "start" /\ data.script = "data_loader"
    /\ data' = IF data.root
               THEN [data EXCEPT !.pc = "checked"]
               ELSE [data EXCEPT !.pc = "failed", !.error = NotFoundError]
    /\ UNCHANGED dataFrame

\* whether image_dataset_from_directory raises: data_loader.py passes
\* class_names=CLASS_NAMES, train_model.py infers the classes
LibraryRaises(d) ==
    \/ d.script = "data_loader" /\ d.subdirs # ClassDirs
    \/ d.n = 0

\* data_loader.py:34-46, train_model.py:51-61: subset="training"
LoadTraining ==
    /\ \/ data.pc = "checked"
       \/ data.pc = "start" /\ data.script = "train_model"
    /\ data' = IF LibraryRaises(data)
               THEN [data EXCEPT !.pc = "failed", !.error = LibraryError]
               ELSE [data EXCEPT
                       !.pc = "training_loaded",
                       !.train_ds = Split(Indexed(data.n, data.perm, TRUE),
                                          "training")]
    /\ UNCHANGED dataFrame

\* data_loader.py:48-60, train_model.py:63-73: subset="validation"
LoadValidation ==
    /\ data.pc = "training_loaded"
    /\ data' = [data EXCEPT
                  !.pc = "loaded",
                  !.val_ds = Split(Indexed(data.n, data.perm,
                                           ValidationShuffle(data.script)),
                                   "validation")]
    /\ UNCHANGED dataFrame

NextData == CheckRoot \/ LoadTraining \/ LoadValidation

SpecData == InitData /\ [][NextData]_vars

-----------------------------------------------------------------------------
(* src/preprocess.py: load_and_preprocess *)

\* largest side, in pixels, of the files and of the target sizes
MaxSide == 3

\* the largest value of an 8-bit channel
ChannelMax == 255

Sides == 1..MaxSide

\* channel values the darkest and the brightest pixel of a file may have
PixelValues == {0, 127, ChannelMax}

\* what the path names: nothing, bytes that are no image, or an image of
\* one, three or four channels
ImageFiles ==
    {[kind |-> k, h |-> 0, w |-> 0, lo |-> 0, hi |-> 0] :
        k \in {"missing", "corrupt"}}
    \cup {f \in [kind : {"gray", "color", "alpha"}, h : Sides, w : Sides,
                 lo : PixelValues, hi : PixelValues] : f.lo <= f.hi}

\* target_size as the callers pass it: (width, height)
TargetSizes == Sides \X Sides

NoArray == [isNone |-> TRUE, shape |-> <<>>, order |-> "none",
            dtype |-> "none", lo |-> 0, hi |-> 0]

\* cv2.imread(path) with the default flag: None when the file cannot be
\* read or decoded, else an 8-bit array of three channels in B, G, R order
imread(f) ==
    IF f.kind \in {"missing", "corrupt"}
    THEN NoArray
    ELSE [isNone |-> FALSE, shape |-> <<f.h, f.w, 3>>, order |-> "BGR",
          dtype |-> "uint8", lo |-> f.lo, hi |-> f.hi]

ResizedShapeAsGiven(target_size) == <<target_size[1], target_size[2], 3>>

\* cv2.resize takes dsize as (width, height) and returns rows first
ResizedShape(target_size) == <<target_size[2], target_size[1], 3>>

\* astype(np.float32) / 255.0, in hundredths
Normalised(v) == (v * One) \div ChannelMax

InitPreprocess ==
    /\ img \in {[pc |-> "imread", file |-> f, target_size |-> t,
                 arr |-> NoArray, raised |-> "none", returned |-> NoArray] :
                    f \in ImageFiles, t \in TargetSizes}
    /\ labelRun = NoRun /\ train = Off /\ batch = Off /\ cw = Off
    /\ data = Off /\ launch = Off /\ report = Off /\ health = Off
    /\ appKind = "app"
    /\ environ = DemoEnviron
    /\ phase = "starting"
    /\ TF_AVAILABLE = FALSE
    /\ CONFIG_AVAILABLE = FALSE
    /\ model = None
    /\ clock = 0
    /\ fs = {}
    /\ req = [r \in Requests |-> IdleRequest]

imgFrame == <<servingVars, labelRun, train, batch, cw, data, launch, report,
              health>>

\* preprocess.py:14
ReadImage ==
    /\ img.pc = "imread"
    /\ img' = [img EXCEPT !.arr = imread(img.file), !.pc = "check"]
    /\ UNCHANGED imgFrame

\* preprocess.py:15-16
RaiseUnreadable ==
    /\ img.pc = "check"
    /\ img.arr.isNone
    /\ img' = [img EXCEPT !.raised = "ValueError", !.pc = "done"]
    /\ UNCHANGED imgFrame

\* preprocess.py:17
ConvertColor ==
    /\ img.pc = "check"
    /\ ~img.arr.isNone
    /\ img' = [img EXCEPT !.arr.order = "RGB", !.pc = "resize"]
    /\ UNCHANGED imgFrame

\* preprocess.py:18: every output pixel of INTER_AREA is a rounded weighted
\* mean of source pixels, so it lies between the darkest and the brightest
ResizeArea ==
    /\ img.pc = "resize"
    /\ \E lo, hi \in img.arr.lo..img.arr.hi :
        /\ lo <= hi
        /\ lo \in PixelValues \/ lo = img.arr.lo + 1
        /\ hi \in PixelValues \/ hi = img.arr.hi - 1
        /\ img' = [img EXCEPT !.arr.shape = ResizedShape(img.target_size),
                              !.arr.lo = lo, !.arr.hi = hi,
                              !.pc = "normalise"]
    /\ UNCHANGED imgFrame

\* preprocess.py:19-20
NormaliseAndReturn ==
    /\ img.pc = "normalise"
    /\ img' = [img EXCEPT
                  !.returned = [img.arr EXCEPT !.dtype = "float32",
                                               !.lo = Normalised(img.arr.lo),
                                               !.hi = Normalised(img.arr.hi)],
                  !.pc = "done"]
    /\ UNCHANGED imgFrame

NextPreprocess ==
    \/ ReadImage
    \/ RaiseUnreadable
    \/ ConvertColor
    \/ ResizeArea
    \/ NormaliseAndReturn

SpecPreprocess == InitPreprocess /\ [][NextPreprocess]_vars

-----------------------------------------------------------------------------
(* healthcare_report.py: the summary of a folder *)

\* most image files in the folder
MaxRecords == 3

\* an image file of the folder: unreadable, or readable with the output the
\* model gives for it (two units, or one)
ReportFiles ==
    {[content |-> "corrupt", probs |-> <<>>]}
    \cup {[content |-> "image", probs |-> p] : p \in BatchOutputs \cup {<<60>>}}

RECURSIVE SeqsUpTo(_, _)
SeqsUpTo(S, n) ==
    IF n = 0 THEN {<<>>}
    ELSE LET shorter == SeqsUpTo(S, n - 1)
         IN  shorter \cup {Append(q, x) : q \in {t \in shorter : Len(t) = n - 1},
                                          x \in S}

\* predict.py:29-38: the record predict_folder yields for one file
FolderRecord(path, file) ==
    LET out == predict_single_image(path, file.content, file.probs)
    IN  IF out.raised
        THEN [path |-> path, label |-> None, conf |-> "Could not read image"]
        ELSE [path |-> path, label |-> out.label, conf |-> out.confidence]

CountsEveryRecord(rec) == TRUE

\* healthcare_report.py:26-27: `label is not None`
IsValid(rec) == rec.label # None

IsUnreadable(rec) == rec.label = None

\* counter.get(label, 0)
CountLabel(valid, label) ==
    Len(SelectSeq(valid, LAMBDA rec : rec.label = label))

\* f"{100*n/max(1,n_total):.1f}", in tenths of a percent
PercentTenths(n, n_total) ==
    LET d == Max({1, n_total})
    IN  (2000 * n + d) \div (2 * d)

InitReport ==
    /\ report \in {[pc |-> "predict", files |-> fl, results |-> <<>>,
                    n_total |-> 0, n_errors |-> 0, n_parasitized |-> 0,
                    n_uninfected |-> 0, lines |-> <<>>] :
                        fl \in SeqsUpTo(ReportFiles, MaxRecords)}
    /\ labelRun = NoRun /\ train = Off /\ batch = Off /\ cw = Off
    /\ data = Off /\ img = Off /\ launch = Off /\ health = Off
    /\ appKind = "app"
    /\ environ = DemoEnviron
    /\ phase = "starting"
    /\ TF_AVAILABLE = FALSE
    /\ CONFIG_AVAILABLE = FALSE
    /\ model = None
    /\ clock = 0
    /\ fs = {}
    /\ req = [r \in Requests |-> IdleRequest]

reportFrame == <<servingVars, labelRun, train, batch, cw, data, img, launch,
                 health>>

\* healthcare_report.py:23
RunFolder ==
    /\ report.pc = "predict"
    /\ report' = [report EXCEPT
                     !.results = [i \in 1..Len(report.files) |->
                                     FolderRecord(i, report.files[i])],
                     !.pc = "count"]
    /\ UNCHANGED reportFrame

\* healthcare_report.py:26-32
CountDiagnoses ==
    /\ report.pc = "count"
    /\ LET valid == SelectSeq(report.results, IsValid)
           errors == SelectSeq(report.results, IsUnreadable)
       IN  report' = [report EXCEPT
                         !.n_total = Len(valid),
                         !.n_errors = Len(errors),
                         !.n_parasitized = CountLabel(valid, "Parasitized"),
                         !.n_uninfected = CountLabel(valid, "Uninfected"),
                         !.pc = "render"]
    /\ UNCHANGED reportFrame

\* healthcare_report.py:34-58
RenderReport ==
    /\ report.pc = "render"
    /\ report' = [report EXCEPT
                     !.lines = <<report.n_total,
                                 PercentTenths(report.n_parasitized, report.n_total),
                                 PercentTenths(report.n_uninfected, report.n_total),
                                 report.n_errors>>,
                     !.pc = "done"]
    /\ UNCHANGED reportFrame

NextReport == RunFolder \/ CountDiagnoses \/ RenderReport

SpecReport == InitReport /\ [][NextReport]_vars

-----------------------------------------------------------------------------
(* Properties of api_predict *)

Returned(r) == req[r].pc = "done"

Body(r) == req[r].resp.body

IsPrediction(r) == Returned(r) /\ req[r].resp.status = 200

IsError(r, status) ==
    /\ Returned(r)
    /\ req[r].resp.status = status
    /\ "error" \in DOMAIN Body(r)

FlaggedDemo(r) == "demo_mode" \in DOMAIN Body(r) /\ Body(r).demo_mode = TRUE

FoldedImageExts == {ExtPngLower, ExtJpgLower, ExtJpegLower}

\* the upload is within the size limit and passes the handler's validation
Accepted(in) == Rejection(appKind, in).status = 0

\* an accepted upload that file.save can store
Stored(in) == Accepted(in) /\ ~HasSeparator(in.filename) /\ in.disk = "ok"

\* C1: a request that reached file.save leaves no temp file behind when the
\* handler returns, on the 200 paths and on the 500 path alike, provided
\* os.remove did not fail.
C1_TempFileRemoved ==
    \A r \in Requests :
        (Returned(r) /\ "save" \in req[r].invoked /\ ~req[r].removeFailed)
            => req[r].temp_path \notin fs

\* the 500 exit of app.py after file.save had created the file
C1_Witness ==
    \E r \in Requests :
        /\ appKind = "app"
        /\ IsError(r, 500)
        /\ req[r].saved
        /\ ~req[r].removeFailed
        /\ req[r].temp_path \notin fs

\* the environment holds no trained model that app.py can load
NoTrainedModel(e) ==
    \/ ~e.tensorflow
    \/ ~e.config
    \/ ~e.modelsDir
    \/ e.modelFiles = <<>>
    \/ e.modelFiles[1] = "corrupt"

C3_StartupWithoutModel ==
    (phase = "starting" /\ phase' = "serving" /\ appKind = "app"
        /\ NoTrainedModel(environ)) => model' = None

C3_DemoAnswer ==
    \A r \in Requests :
        (appKind = "app" /\ model = None /\ Returned(r) /\ Stored(req[r].input))
            => /\ req[r].resp.status = 200
               /\ FlaggedDemo(r)
               /\ Body(r).label \in {"Uninfected", "Parasitized"}
               /\ Body(r).confidence \in 0..One

\* C3: without a loadable model app.py starts with model = None, and every
\* upload that passes validation and is stored gets 200 with demo_mode = true,
\* one of the two labels and a confidence in [0, 1].
C3_NoModelIsNotFatal == [][C3_StartupWithoutModel]_vars /\ []C3_DemoAnswer

\* models/ holds a file that load_model rejects, and an upload was answered
C3_Witness ==
    \E r \in Requests :
        /\ appKind = "app"
        /\ TF_AVAILABLE /\ CONFIG_AVAILABLE /\ model = None
        /\ IsPrediction(r)
        /\ FlaggedDemo(r)

\* C4: a 200 response of app.py has the demo_mode key, set to true, exactly
\* when the generator produced its values; values of model.predict come
\* without the key.
C4_DemoFlagIffGenerated ==
    \A r \in Requests :
        (appKind = "app" /\ IsPrediction(r))
            => /\ req[r].producer \in {"model", "generator"}
               /\ FlaggedDemo(r) <=> req[r].producer = "generator"
               /\ req[r].producer = "model" => "demo_mode" \notin DOMAIN Body(r)
               /\ req[r].producer = "generator" => "generator" \in req[r].invoked

\* a loaded model failed on this request and the generator's answer is flagged
C4_Witness ==
    \E r \in Requests :
        /\ appKind = "app" /\ model # None
        /\ IsPrediction(r)
        /\ req[r].producer = "generator"
        /\ FlaggedDemo(r)

\* the model branch of app.py was entered and something in it raised
PredictionRaised(r) ==
    /\ appKind = "app"
    /\ "model" \in req[r].invoked
    /\ (req[r].input.content = "corrupt" \/ model = "sigmoid1")

\* C5 as stated: a failure during a single prediction with a loaded model is
\* answered 500 with {"error": <message>}.
C5_FailureIs500 ==
    \A r \in Requests :
        (Returned(r) /\ PredictionRaised(r)) => IsError(r, 500)

\* C5, amended: a failure inside the model branch is caught by the handler
\* around that branch and answered 200 with a generated prediction flagged
\* demo_mode = true; app.py answers 500 only when nothing of the model branch
\* has run.
C5_FailureIsDemoAnswer ==
    \A r \in Requests :
        /\ (Returned(r) /\ PredictionRaised(r))
              => /\ req[r].resp.status = 200
                 /\ FlaggedDemo(r)
                 /\ req[r].producer = "generator"
        /\ (appKind = "app" /\ Returned(r) /\ req[r].resp.status = 500)
              => "model" \notin req[r].invoked

\* a corrupt image met a loaded two-class model
C5_Witness ==
    \E r \in Requests :
        /\ Returned(r)
        /\ PredictionRaised(r)
        /\ model = "softmax2"
        /\ req[r].input.content = "corrupt"

\* C6: an oversize upload is answered 413 with {"error": ...} by app.py and
\* by demo_app.py.
C6_OversizeIs413 ==
    \A r \in Requests :
        (Returned(r) /\ req[r].input.oversize) => IsError(r, 413)

\* no usable `image` field: none, an empty file name, or an extension that is
\* no image extension even after case folding
Malformed(in) ==
    \/ ~in.hasImage
    \/ in.filename = NameEmpty
    \/ Lower(SplitExt(in.filename)) \notin FoldedImageExts

\* C7: a request without image field, with an empty file name or with a
\* non-image extension gets 400 with {"error": ...} at once (naming PNG, JPG
\* and JPEG for the extension); no temp file, no model, no generator.
C7_MalformedIs400 ==
    \A r \in Requests :
        (req[r].pc # "idle" /\ ~req[r].input.oversize /\ Malformed(req[r].input))
            => /\ IsError(r, 400)
               /\ req[r].invoked = {}
               /\ ~req[r].saved
               /\ req[r].temp_path = NoPath
               /\ (req[r].input.hasImage /\ req[r].input.filename # NameEmpty)
                     => Body(r).error = MsgInvalidFormat

\* an upload named c.txt was turned away
C7_Witness ==
    \E r \in Requests :
        /\ req[r].input.hasImage
        /\ req[r].input.filename = NameTxt
        /\ ~req[r].input.oversize
        /\ IsError(r, 400)

\* C8: a file name whose extension is .png, .jpg or .jpeg after case folding
\* is not rejected with 400.
C8_ExtensionCaseInsensitive ==
    \A r \in Requests :
        (/\ req[r].pc # "idle"
         /\ ~req[r].input.oversize
         /\ req[r].input.hasImage
         /\ Lower(SplitExt(req[r].input.filename)) \in FoldedImageExts)
            => ~IsError(r, 400)

OtherClass(label) == IF label = "Uninfected" THEN "Parasitized" ELSE "Uninfected"

\* C9: in every 200 response probabilities has the two class keys, the two
\* values sum to 1, label is a class of largest probability and confidence is
\* the probability stored under label.
C9_ProbabilitiesConsistent ==
    \A r \in Requests :
        IsPrediction(r)
            => LET probs == Body(r).probabilities
                   label == Body(r).label
               IN  /\ DOMAIN probs = {"Uninfected", "Parasitized"}
                   /\ probs["Uninfected"] + probs["Parasitized"] = One
                   /\ label \in DOMAIN probs
                   /\ probs[label] >= probs[OtherClass(label)]
                   /\ Body(r).confidence = probs[label]

\* a real prediction and a generated one have both been checked
C9_Witness ==
    \E r \in Requests :
        /\ IsPrediction(r)
        /\ req[r].producer = "model"
        /\ Body(r).label = "Parasitized"
        /\ Body(r).confidence > 50

\* C10: a generated result is Parasitized with confidence in [0.65, 0.95] or
\* Uninfected with confidence in [0.70, 0.98], and the other class has
\* exactly 1 - confidence.
C10_DemoShapes ==
    \A r \in Requests :
        (IsPrediction(r) /\ req[r].producer = "generator")
            => LET b == Body(r)
               IN  \/ /\ b.label = "Parasitized"
                      /\ b.confidence \in 65..95
                      /\ b.probabilities["Parasitized"] = b.confidence
                      /\ b.probabilities["Uninfected"] = 100 - b.confidence
                   \/ /\ b.label = "Uninfected"
                      /\ b.confidence \in 70..98
                      /\ b.probabilities["Uninfected"] = b.confidence
                      /\ b.probabilities["Parasitized"] = 100 - b.confidence

\* the inline generator of demo_app.py drew the top of the Uninfected range
C10_Witness ==
    \E r \in Requests :
        /\ appKind = "demo_app"
        /\ IsPrediction(r)
        /\ req[r].producer = "generator"
        /\ Body(r).label = "Uninfected"
        /\ Body(r).confidence = 98

-----------------------------------------------------------------------------
(* Properties of the class indices *)

\* C2: whatever script trained the model and whatever script reads its
\* output, a cell is reported under its own class name: index 0 is
\* Uninfected and index 1 is Parasitized on both sides.
C2_LabelMatchesClass ==
    labelRun.pc = "reported" => labelRun.label = labelRun.cell

(***************************************************************************)
(* Properties of training                                                  *)
(***************************************************************************)

\* the values of one metric, epoch by epoch
Column(h, k) == [i \in 1..Len(h) |-> h[i][k]]

\* the first epoch that reached the highest validation accuracy of h
BestAccuracyEpoch(h) ==
    CHOOSE i \in 1..Len(h) :
        /\ \A j \in 1..Len(h) : h[j].val_accuracy <= h[i].val_accuracy
        /\ \A j \in 1..(i - 1) : h[j].val_accuracy < h[i].val_accuracy

\* the first epoch that reached the lowest validation loss of h
LowestLossEpoch(h) ==
    CHOOSE i \in 1..Len(h) :
        /\ \A j \in 1..Len(h) : h[j].val_loss >= h[i].val_loss
        /\ \A j \in 1..(i - 1) : h[j].val_loss > h[i].val_loss

\* the number of epochs run since the lowest validation loss was reached
EpochsSinceLowest(h) == Len(h) - LowestLossEpoch(h)

\* C11: after every epoch the file at model_path holds the weights of the
\* epoch with the highest validation accuracy so far, the earliest such epoch
\* when several share it, so that an epoch that does not exceed the best
\* leaves the file alone; before the first epoch there is no file.
C11_ArtifactIsBestEpoch ==
    /\ train.epoch = 0 => train.artifact = 0
    /\ train.epoch >= 1 => train.artifact = BestAccuracyEpoch(train.hist)

C11_Witness ==
    /\ train.pc = "done"
    /\ Column(train.hist, "val_accuracy") = <<70, 85, 80, 90>>
    /\ train.artifact = 4

\* C12: the run is stopped exactly at the first epoch that ends the patience
\* window of the script (4 epochs in train.py, 5 in train_model.py, both more
\* than the 2 of the learning rate) without a validation loss below the best,
\* and from then on the model holds the weights of the epoch with the lowest
\* validation loss.
C12_StopsAfterPatience ==
    /\ StopPatience("train") = 4
    /\ StopPatience("train_model") = 5
    /\ \A s \in TrainScripts : StopPatience(s) > LrPatience
    /\ train.epoch >= 1 =>
         /\ EpochsSinceLowest(train.hist) <= StopPatience(train.script)
         /\ train.stop_training <=>
              EpochsSinceLowest(train.hist) = StopPatience(train.script)
         /\ train.stop_training =>
              /\ train.stopped_epoch = train.epoch
              /\ train.weights = LowestLossEpoch(train.hist)
              /\ ~ENABLED Epoch
         /\ train.terminal = "EarlyStopped" =>
              train.returned = LowestLossEpoch(train.hist)

C12_Witness ==
    /\ train.script = "train"
    /\ train.terminal = "EarlyStopped"
    /\ train.epoch = 5
    /\ train.epoch < train.epochs
    /\ train.returned = 1

\* the learning rate never rises: an epoch leaves it alone or halves it,
\* the half bounded below by the minimum
LrHalvesOrStays ==
    train'.lr \in {train.lr, Max({train.lr \div 2, MinLr})} /\ train'.lr <= train.lr

\* C13: the rate starts at 1e-3; whenever the last 2 epochs both ended
\* without a validation loss below the best, the rate was halved at the end
\* of one of them, unless it had reached the minimum; from one state to the
\* next the rate never rises, and it is never below the minimum 1e-6.
C13_LrBounds ==
    /\ InitialLr = 1000 * MinLr
    /\ train.epoch = 0 => train.lr = InitialLr
    /\ train.lr >= MinLr
    /\ train.lr <= InitialLr
    /\ train.stale >= 2 =>
         \/ train.halved_at >= train.epoch - 1
         \/ train.lr = MinLr

C13_LearningRateDecay == []C13_LrBounds /\ [][LrHalvesOrStays]_vars

\* the tenth halving, cut off at the minimum
C13_Witness ==
    /\ train.lr = MinLr
    /\ train.halved_at = train.epoch
    /\ train.stale >= 2

\* the history file of a finished run of train.py has one value per completed
\* epoch for every metric it lists
OneValuePerEpoch ==
    /\ train.reported_saved
    /\ \A k \in DOMAIN train.history_file :
         Len(train.history_file[k]) = train.epoch
    /\ train.epoch >= 1 => DOMAIN train.history_file = HistoryMetrics

\* C14 as stated: a finished run of train.py has written one value per
\* completed epoch for each metric, and the model main returns has the
\* weights of the epoch held by the file it reports as saved.
C14_ReturnedIsArtifact ==
    train.pc = "done" /\ train.script = "train" =>
        /\ OneValuePerEpoch
        /\ train.returned = train.artifact

\* C14, amended: a finished run of train.py has written one value per
\* completed epoch for each metric; the file it reports as saved holds the
\* epoch with the highest validation accuracy, while the model main returns
\* has the weights the run ended with, those of the last epoch or of the
\* epoch with the lowest validation loss, the latter whenever the run was
\* stopped early; without an epoch there is no file and no trained weights.
C14_HistoryAndArtifact ==
    train.pc = "done" /\ train.script = "train" =>
        /\ OneValuePerEpoch
        /\ train.epoch >= 1 =>
             /\ train.artifact = BestAccuracyEpoch(train.hist)
             /\ train.returned \in {train.epoch, LowestLossEpoch(train.hist)}
             /\ train.terminal = "EarlyStopped" =>
                  train.returned = LowestLossEpoch(train.hist)
        /\ train.epoch = 0 => train.artifact = 0 /\ train.returned = 0

C14_Witness ==
    /\ train.pc = "done" /\ train.script = "train"
    /\ train.epoch = 3
    /\ Len(train.history_file["val_loss"]) = 3
    /\ train.artifact = 1
    /\ train.returned = 2

\* how many of the given conditions hold
Count(conds) == Cardinality({i \in DOMAIN conds : conds[i]})

TerminalStates == {"EarlyStopped", "EpochLimitReached"}

\* C15 as stated: a finished run has gone through at least one epoch and at
\* most as many as its limit, and is in one of the two terminal states.
C15_AtLeastOneEpoch ==
    train.pc = "done" =>
        /\ train.epoch >= 1
        /\ train.epoch <= train.epochs
        /\ train.terminal \in TerminalStates

\* the epoch loop: never more epochs than the limit; after each epoch exactly
\* one of continue, EarlyStopped and EpochLimitReached; a finished run is in
\* the one terminal state that fits how the loop was left, after at least
\* one epoch when the limit allows one
C15_Loop ==
    /\ train.epoch <= train.epochs
    /\ train.pc = "fit" =>
         /\ train.terminal = "none"
         /\ train.epoch >= 1 =>
              Count(<<ENABLED Epoch,
                      train.stop_training,
                      ~train.stop_training /\ train.epoch = train.epochs>>) = 1
         /\ ENABLED Epoch \/ ENABLED AfterFit
    /\ train.pc = "done" =>
         /\ train.terminal \in TerminalStates
         /\ train.terminal = "EarlyStopped" <=> train.stop_training
         /\ train.terminal = "EpochLimitReached" => train.epoch = train.epochs
         /\ train.epochs >= 1 => train.epoch >= 1
         /\ ~ENABLED NextTrain

\* C15, amended: the epoch loop always terminates, in exactly one of
\* EarlyStopped and EpochLimitReached, after at most as many epochs as the
\* limit and after at least one epoch when the limit is 1 or more; after
\* each epoch exactly one of continue, EarlyStopped and EpochLimitReached is
\* taken.
C15_AlwaysTerminates == []C15_Loop /\ <>(train.pc = "done")

C15_Witness ==
    /\ train.pc = "done"
    /\ train.terminal = "EpochLimitReached"
    /\ train.epoch >= 5
    /\ train.es_wait >= 3

(***************************************************************************)
(* Properties of predict.py                                                *)
(***************************************************************************)

\* the name ends in .png, .jpg or .jpeg, letters compared without case
HasImageSuffix(f) ==
    \E x \in {ExtPngLower, ExtJpgLower, ExtJpegLower} :
        /\ Len(f) >= Len(x)
        /\ \A i \in 1..Len(x) : LowerChar(f[Len(f) - Len(x) + i]) = x[i]

ImageEntries == {f \in batch.entries : HasImageSuffix(f)}

\* the directory entry a record is about
NameOf(path) == SubSeq(path, Len(FolderPath) + 2, Len(path))

RecordsOf(f) ==
    {i \in 1..Len(batch.records) : NameOf(batch.records[i].path) = f}

ErrorRecords == {i \in 1..Len(batch.records) : batch.records[i].label = None}

\* C16: the batch never aborts; when it is through, every unreadable image of
\* the folder has exactly one record (path, None, reason) and its row says
\* ERROR with that reason, and every readable image, those after a failure
\* included, has exactly one record with a class name and a confidence.
C16_FailureDoesNotAbort ==
    /\ batch.pc # "crashed"
    /\ batch.pc = "loop" /\ batch.todo # <<>> => ENABLED NextFile
    /\ Len(batch.rows) = Len(batch.records) + 1
    /\ batch.pc = "done" =>
         /\ batch.result = batch.rows
         /\ \A f \in ImageEntries :
              /\ Cardinality(RecordsOf(f)) = 1
              /\ \A i \in RecordsOf(f) :
                   LET rec == batch.records[i]
                       row == batch.rows[i + 1]
                   IN  /\ rec.path = Join(FolderPath, f)
                       /\ row[1] = rec.path
                       /\ IF f \in batch.corrupt
                          THEN /\ rec.label = None
                               /\ rec.conf = <<"Could not read image", rec.path>>
                               /\ row[2] = "ERROR"
                               /\ row[3] = rec.conf
                          ELSE /\ rec.label \in {"Uninfected", "Parasitized"}
                               /\ rec.conf \in 50..One
                               /\ row[2] = rec.label
         /\ Cardinality(ErrorRecords) = Cardinality(batch.corrupt)

\* five readable images and one unreadable one, which is not the last
C16_Witness ==
    /\ batch.pc = "done"
    /\ Len(batch.records) = 6
    /\ Cardinality(ErrorRecords) = 1
    /\ batch.records[2].label = None
    /\ \A i \in 3..6 : batch.records[i].label # None

\* C17: when the batch is through there is exactly one record for every
\* entry of the folder whose name ends, without regard to case, in .png,
\* .jpg or .jpeg, none for any other entry, and the records are in ascending
\* order of the names, whatever order os.listdir gave.
C17_OneRecordPerImageSorted ==
    batch.pc = "done" =>
        /\ Len(batch.records) = Cardinality(ImageEntries)
        /\ {NameOf(batch.records[i].path) : i \in 1..Len(batch.records)}
             = ImageEntries
        /\ \A i, j \in 1..Len(batch.records) :
             i < j => StrLess(NameOf(batch.records[i].path),
                              NameOf(batch.records[j].path))

\* a listing that is not in order, with names that give no record
C17_Witness ==
    /\ batch.pc = "done"
    /\ Len(batch.listing) >= 5
    /\ StrLess(batch.listing[2], batch.listing[1])
    /\ NameTxt \in batch.entries /\ NameNoDot \in batch.entries
    /\ NameDotfile \in batch.entries
    /\ Len(batch.records) = Len(batch.listing) - 2

\* i is the lowest index (from 0) at which the vector has its maximum
IsFirstMaximum(probs, i) ==
    /\ i + 1 \in 1..Len(probs)
    /\ \A j \in 1..Len(probs) : probs[j] <= probs[i + 1]
    /\ \A j \in 1..i : probs[j] < probs[i + 1]

ClassName(i) == IF i = 0 THEN "Uninfected" ELSE "Parasitized"

BothRan == batch.cli.ran /\ batch.web.ran /\ batch.content = "image"

ImagesOf(class) ==
    IF cw.dirs[class].isdir
    THEN cw.dirs[class].files[NamePngLower] + cw.dirs[class].files[NameJpgMixed]
    ELSE 0

Computed == cw.pc \in {"computed", "done"}

\* C19: get_class_weights returns None whenever a class has no image, and
\* a mapping it returns covers both classes.
C19_NoneWhenAClassIsEmpty ==
    Computed =>
        /\ ImagesOf("Uninfected") = 0 \/ ImagesOf("Parasitized") = 0
             => cw.class_weights.isNone
        /\ ~cw.class_weights.isNone =>
             DOMAIN cw.class_weights.weights = {0, 1}

\* C20: when both classes have an image, the mapping gives class 0
\* (Uninfected) and class 1 (Parasitized) the weight total / (2 * count),
\* the counts being those of the files with an image extension; (100, 25)
\* gives 0.625 and 2.5.
C20_WeightIsTotalOverTwiceCount ==
    LET n0 == ImagesOf("Uninfected")
        n1 == ImagesOf("Parasitized")
        w == cw.class_weights.weights
    IN  Computed /\ n0 > 0 /\ n1 > 0 =>
            /\ ~cw.class_weights.isNone
            /\ DOMAIN w = {0, 1}
            /\ w[0].num * (2 * n0) = (n0 + n1) * w[0].den
            /\ w[1].num * (2 * n1) = (n0 + n1) * w[1].den
            /\ w[0].den > 0 /\ w[1].den > 0
            /\ n0 = 100 /\ n1 = 25 =>
                 /\ w[0].num * 1000 = 625 * w[0].den
                 /\ w[1].num * 10 = 25 * w[1].den

\* 100 and 25 images, next to files that are not images
C20_Witness ==
    /\ cw.pc = "done"
    /\ ImagesOf("Uninfected") = 100 /\ ImagesOf("Parasitized") = 25
    /\ cw.dirs["Uninfected"].files[NameJpgMixed] = 100
    /\ cw.dirs["Parasitized"].files[NameTxt] = 1
    /\ ~cw.class_weights.isNone
    /\ cw.printed

(***************************************************************************)
(* Properties of the data directory                                        *)
(***************************************************************************)

\* C21: when the root directory or one of the two class directories is
\* missing, get_dataset_from_folders fails with its directory-not-found
\* error, whose message names Parasitized/ and Uninfected/.
C21_MissingDirectoryIsNotFound ==
    /\ data.script = "data_loader"
    /\ data.pc \in {"failed", "training_loaded", "loaded"}
    /\ ~data.root \/ data.subdirs # ClassDirs
    => /\ data.pc = "failed"
       /\ data.error.exc = "FileNotFoundError"
       /\ data.error.names = {"Parasitized", "Uninfected"}

Elements(l) == {l[i] : i \in 1..Len(l)}

\* C22: once both subsets are loaded they are disjoint, together they hold
\* every image of the directory, and the validation subset is the 20% share
\* of them, rounded down; for the loader and for train_model.py.
C22_SplitIsPartition ==
    data.pc = "loaded" =>
        /\ Elements(data.train_ds) \cap Elements(data.val_ds) = {}
        /\ Elements(data.train_ds) \cup Elements(data.val_ds) = 1..data.n
        /\ Len(data.train_ds) + Len(data.val_ds) = data.n
        /\ 5 * Len(data.val_ds) <= data.n
        /\ data.n < 5 * (Len(data.val_ds) + 1)

(***************************************************************************)
(* Properties of concurrent requests                                       *)
(***************************************************************************)

\* the request has named its temp file and has not yet left the handler
HoldsPath(r) == req[r].pc \in {"save", "predict", "finally", "remove"}

\* C23: two requests in the handler at the same time never have the same
\* temp path, and the file a request has saved is there until that request's
\* own cleanup, whatever the other request does.
C23_RequestsShareNoFile ==
    /\ \A r1, r2 \in Requests :
         r1 # r2 /\ HoldsPath(r1) /\ HoldsPath(r2)
             => req[r1].temp_path # req[r2].temp_path
    /\ \A r \in Requests :
         req[r].saved /\ req[r].pc \in {"predict", "finally"}
             => req[r].temp_path \in fs

-----------------------------------------------------------------------------
(* C24 *)

Answered200(r) == req[r].pc \in {"finally", "remove", "done"} /\ req[r].resp.status = 200

CarriesDemoMode(r) == "demo_mode" \in DOMAIN req[r].resp.body

HealthFlagsAgree ==
    health.pc = "answered" => (health.demo_mode <=> ~health.model_loaded)

\* C24 as stated: the health endpoint reports demo_mode true exactly when
\* model_loaded is false, and while it reports demo_mode = false every
\* successful /api/predict response is a model prediction that does not
\* carry demo_mode = true.
C24_HealthAgreesWithPredict ==
    /\ HealthFlagsAgree
    /\ \A r \in Serial :
         (health.pc = "answered" /\ Answered200(r)) =>
            (~health.demo_mode =>
                req[r].producer = "model" /\ ~CarriesDemoMode(r))

\* C24, amended: demo_mode is true exactly when model_loaded is false; while
\* the health endpoint reports demo_mode = true every successful response is
\* a generated one carrying demo_mode = true; while it reports demo_mode =
\* false a successful response is a model prediction without the flag unless
\* the model branch raised for that request, and then it is a generated
\* prediction carrying demo_mode = true.
C24_HealthAndFallback ==
    /\ HealthFlagsAgree
    /\ health.pc = "answered" =>
         /\ health.model_loaded = (model # None)
         /\ health.tensorflow_available = TF_AVAILABLE
         /\ health.config_available = CONFIG_AVAILABLE
    /\ \A r \in Serial :
         (health.pc = "answered" /\ Answered200(r)) =>
            /\ health.demo_mode =>
                 /\ req[r].producer = "generator" /\ CarriesDemoMode(r)
                 /\ "model" \notin req[r].invoked
            /\ ~health.demo_mode =>
                 /\ "model" \in req[r].invoked
                 /\ \/ req[r].producer = "model" /\ ~CarriesDemoMode(r)
                    \/ /\ req[r].producer = "generator" /\ CarriesDemoMode(r)
                       /\ \/ req[r].input.content = "corrupt"
                          \/ model = "sigmoid1"

C24_Witness ==
    /\ health.pc = "answered" /\ ~health.demo_mode
    /\ Answered200("r1")
    /\ req["r1"].producer = "generator" /\ CarriesDemoMode("r1")
    /\ req["r1"].input.content = "image"

-----------------------------------------------------------------------------
(* C26 *)

ProcessGlobals == <<model, TF_AVAILABLE, CONFIG_AVAILABLE>>

\* C26: once app.py has started, a loaded model implies that both the
\* library and the project configuration are available (so a request that
\* invokes the model preprocesses with the project's function), and no step
\* of a prediction or health request changes model, TF_AVAILABLE or
\* CONFIG_AVAILABLE.
C26_ModelIsFixedAtStartup ==
    /\ [](phase = "serving" =>
            /\ model # None => TF_AVAILABLE /\ CONFIG_AVAILABLE
            /\ \A r \in Serial :
                 "model" \in req[r].invoked => CONFIG_AVAILABLE /\ model # None)
    /\ [][phase = "serving" => UNCHANGED ProcessGlobals]_vars

C26_Witness ==
    /\ model # None
    /\ health.pc = "answered" /\ health.model_loaded
    /\ req["r1"].pc = "done" /\ req["r1"].resp.status = 200
    /\ req["r1"].producer = "model"

-----------------------------------------------------------------------------
(* C27 *)

InsideUploads(path) == FileDepth(path.filename) >= 0

\* C27: for every client file name that passes validation, separators and
\* `..` parts included, the temp path of a request lies inside the upload
\* directory, and so does every file the handler has written and not yet
\* removed.
C27_SavePathInsideUploads ==
    /\ \A r \in Serial : HoldsPath(r) => InsideUploads(req[r].temp_path)
    /\ \A path \in fs : InsideUploads(path)

-----------------------------------------------------------------------------
(* C28 *)

\* the epochs of the run that were trained at a reduced learning rate
ReducedEpochs == {e \in 1..Len(train.hist) : train.hist[e].lr < InitialLr}

\* C28: the learning-rate patience is shorter than the early-stopping
\* patience of either script, and in a run that early stopping has stopped
\* the learning rate was reduced before the epoch of the stop: that epoch
\* was trained at a rate below the initial one, unless the run started at
\* the minimum rate.
C28_ReducedBeforeEarlyStop ==
    train.pc # "off" =>
        /\ LrPatience < StopPatience(train.script)
        /\ train.stop_training =>
             \/ /\ train.stopped_epoch \in ReducedEpochs
                /\ train.lr < InitialLr
                /\ train.halved_at >= 1
             \/ InitialLr = MinLr

C28_Witness ==
    /\ train.pc = "done"
    /\ train.terminal = "EarlyStopped"
    /\ train.script = "train_model"
    /\ train.stopped_epoch \in ReducedEpochs
    /\ 1 \notin ReducedEpochs

-----------------------------------------------------------------------------
(* C25 *)

\* C25: when load_and_preprocess is through, a readable image and a target
\* size (w, h) have given an array of shape (h, w, 3) of floats in which
\* the darkest and the brightest value are the v/255 of 8-bit values and
\* lie in [0, 1], and no error; a path that cannot be read or decoded has
\* given an error and no array.
C25_ShapeAndRange ==
    (img.pc = "done") =>
        IF img.file.kind \in {"gray", "color", "alpha"}
        THEN /\ img.raised = "none"
             /\ ~img.returned.isNone
             /\ img.returned.shape =
                    <<img.target_size[2], img.target_size[1], 3>>
             /\ img.returned.dtype = "float32"
             /\ img.returned.order = "RGB"
             /\ 0 <= img.returned.lo /\ img.returned.lo <= img.returned.hi
             /\ img.returned.hi <= One
             /\ \E v \in img.file.lo..img.file.hi :
                    img.returned.hi * ChannelMax <= v * One
                    /\ v * One < (img.returned.hi + 1) * ChannelMax
        ELSE /\ img.raised = "ValueError"
             /\ img.returned.isNone

C25_Witness ==
    /\ img.pc = "done"
    /\ img.file.kind = "alpha"
    /\ img.file.h = 3 /\ img.file.w = 1
    /\ img.target_size = <<1, 2>>
    /\ img.returned.shape = <<2, 1, 3>>
    /\ img.returned.lo = 0 /\ img.returned.hi = One

-----------------------------------------------------------------------------
(* C29 *)

\* C29: when run_demo.py has announced the production application, the app
\* it started has a model loaded and its successful responses are model
\* predictions; when it has announced the demo application, the successful
\* responses are generated ones.
C29_LaunchMatchesAnnouncement ==
    phase = "serving" =>
        /\ launch.announced = "production" =>
             /\ model # None
             /\ \A r \in Serial : Answered200(r) =>
                    req[r].producer = "model" /\ ~CarriesDemoMode(r)
        /\ launch.announced = "demo" =>
             /\ model = None
             /\ \A r \in Serial : Answered200(r) =>
                    req[r].producer = "generator" /\ CarriesDemoMode(r)

-----------------------------------------------------------------------------
(* C30 *)

\* C30: when the report is written, there is one record per image file, the
\* analyzed images and the errors add up to the records, the Parasitized and
\* the Uninfected add up to the analyzed images, the report shows these
\* counts, and with no analyzed image both percentages are 0.
C30_ReportCountsConsistent ==
    (report.pc = "done") =>
        /\ Len(report.results) = Len(report.files)
        /\ report.n_total + report.n_errors = Len(report.results)
        /\ report.n_parasitized + report.n_uninfected = report.n_total
        /\ report.lines[1] = report.n_total
        /\ report.lines[4] = report.n_errors
        /\ report.n_total = 0 => report.lines[2] = 0 /\ report.lines[3] = 0

C30_Witness ==
    /\ report.pc = "done"
    /\ Len(report.results) = 3
    /\ report.n_errors = 1
    /\ report.n_parasitized = 1
    /\ report.n_uninfected = 1

=============================================================================
